---- MODULE Spec2Model ----
(***************************************************************************)
(* A model of ethical_prompt_chainer: the dilemma validator                *)
(* (data_validator.py), the prompt templates (prompts.py), the chain       *)
(* orchestrator (chainer.py) driven by the command line (cli.py), and the  *)
(* keyword scorers (benchmark.py, long_term_impact.py).                    *)
(*                                                                         *)
(* A text is a sequence of one-character strings.  A Python value is a     *)
(* record [type, val]: a str keeps its characters in val.                  *)
(***************************************************************************)
EXTENDS Integers, Sequences, FiniteSets, TLC

(***************************************************************************)
(* Bounds of the model.                                                    *)
(***************************************************************************)
\* the longest input text of the validator, in runs of one repeated character
MaxRuns == 2
\* the longest dilemmas file, in lines
MaxLines == 3
\* the longest input file of the batch command, in lines
MaxBatchLines == 2
\* the commands run one after the other, after the first
MaxCommands == 1
\* the fragments of a scored text
MaxFragments == 2
\* the items of a list handed to a prompt function
MaxItems == 2

(***************************************************************************)
(* Text primitives (Python str operations).                                *)
(***************************************************************************)
Repeat(c, n) == [i \in 1..n |-> c]

\* needle in hay
Contains(hay, needle) ==
    \E i \in 1..(Len(hay) - Len(needle) + 1) :
        SubSeq(hay, i, i + Len(needle) - 1) = needle

\* str.strip() removes these from both ends
IsWhitespace(c) == c \in {" ", "\n", "\t", "\r"}

RECURSIVE LStrip(_)
LStrip(s) ==
    IF s = <<>> THEN s
    ELSE IF IsWhitespace(Head(s)) THEN LStrip(Tail(s)) ELSE s

RECURSIVE RStrip(_)
RStrip(s) ==
    IF s = <<>> THEN s
    ELSE IF IsWhitespace(s[Len(s)]) THEN RStrip(SubSeq(s, 1, Len(s) - 1)) ELSE s

Strip(s) == RStrip(LStrip(s))

\* the position of the first c in s, 0 when there is none
RECURSIVE IndexFrom(_, _, _)
IndexFrom(s, c, i) ==
    IF i > Len(s) THEN 0
    ELSE IF s[i] = c THEN i ELSE IndexFrom(s, c, i + 1)

\* file.readlines(): the lines, each with its line end
RECURSIVE readlines(_)
readlines(s) ==
    IF s = <<>> THEN <<>>
    ELSE LET nl == IndexFrom(s, "\n", 1)
         IN  IF nl = 0 THEN <<s>>
             ELSE <<SubSeq(s, 1, nl)>> \o readlines(SubSeq(s, nl + 1, Len(s)))

RECURSIVE Concat(_)
Concat(ss) == IF ss = <<>> THEN <<>> ELSE Head(ss) \o Concat(Tail(ss))

(***************************************************************************)
(* Python values.                                                          *)
(***************************************************************************)
Str(s) == [type |-> "str", val |-> s]
NoneValue == [type |-> "NoneType", val |-> <<>>]
IntValue(digits) == [type |-> "int", val |-> digits]
EmptyList == [type |-> "list", val |-> <<>>]

\* bool(v)
Truthy(v) ==
    CASE v.type \in {"str", "list", "dict"} -> v.val # <<>>
      [] v.type = "NoneType" -> FALSE
      [] v.type = "int" -> v.val # <<"0">>
      [] OTHER -> TRUE

\* isinstance(v, str)
IsStr(v) == v.type = "str"

(***************************************************************************)
(* data_validator.py                                                       *)
(***************************************************************************)
MIN_DILEMMA_LENGTH == 50

\* a message: the f-string's fixed text and the values it interpolates
Msg(text, args) == [text |-> text, args |-> args]

MsgNonEmpty == Msg("Dilemma must be a non-empty string", <<>>)
MsgTooShort(min_len) == Msg("Dilemma text too short (minimum {} characters)", <<min_len>>)
MsgQuestion == Msg("Dilemma must be a question", <<>>)
MsgValid == Msg("Valid dilemma text", <<>>)

\* mutants of validate_dilemma_text
validate_dilemma_text_offbyone(min_len, d) ==
    IF ~Truthy(d) \/ ~IsStr(d) THEN [ok |-> FALSE, msg |-> MsgNonEmpty]
    ELSE IF Len(d.val) <= min_len THEN [ok |-> FALSE, msg |-> MsgTooShort(min_len)]
    ELSE IF ~Contains(d.val, <<"?">>) THEN [ok |-> FALSE, msg |-> MsgQuestion]
    ELSE [ok |-> TRUE, msg |-> MsgValid]

validate_dilemma_text_reordered(min_len, d) ==
    IF ~Truthy(d) \/ ~IsStr(d) THEN [ok |-> FALSE, msg |-> MsgNonEmpty]
    ELSE IF ~Contains(d.val, <<"?">>) THEN [ok |-> FALSE, msg |-> MsgQuestion]
    ELSE IF Len(d.val) < min_len THEN [ok |-> FALSE, msg |-> MsgTooShort(min_len)]
    ELSE [ok |-> TRUE, msg |-> MsgValid]

\* DilemmaValidator.validate_dilemma_text: (is_valid, message)
validate_dilemma_text(min_len, d) ==
    IF ~Truthy(d) \/ ~IsStr(d) THEN [ok |-> FALSE, msg |-> MsgNonEmpty]
    ELSE IF Len(d.val) < min_len THEN [ok |-> FALSE, msg |-> MsgTooShort(min_len)]
    ELSE IF ~Contains(d.val, <<"?">>) THEN [ok |-> FALSE, msg |-> MsgQuestion]
    ELSE [ok |-> TRUE, msg |-> MsgValid]

\* f"Line {i}: {error_msg}"
LineError(i, m) == [kind |-> "line", line |-> i, msg |-> m]
\* f"Error reading dilemmas file: {str(e)}"
ReadError == [kind |-> "read", line |-> 0,
              msg |-> Msg("Error reading dilemmas file: {}", <<>>)]

\* the loop of validate_dilemmas_file over enumerate(dilemmas, first)
RECURSIVE FileErrors(_, _, _)
FileErrors(min_len, lines, i) ==
    IF lines = <<>> THEN <<>>
    ELSE LET dilemma == Strip(Head(lines))
             r == validate_dilemma_text(min_len, Str(dilemma))
             rest == FileErrors(min_len, Tail(lines), i + 1)
         IN  IF dilemma = <<>> THEN rest
             ELSE IF ~r.ok THEN <<LineError(i, r.msg)>> \o rest
             ELSE rest

\* mutant: the lines are numbered from 0
validate_dilemmas_file_from0(min_len, f) ==
    IF ~f.readable THEN [ok |-> FALSE, errors |-> <<ReadError>>]
    ELSE LET errors == FileErrors(min_len, readlines(f.content), 0)
         IN  [ok |-> Len(errors) = 0, errors |-> errors]

\* DilemmaValidator.validate_dilemmas_file: (all_valid, errors)
validate_dilemmas_file(min_len, f) ==
    IF ~f.readable THEN [ok |-> FALSE, errors |-> <<ReadError>>]
    ELSE LET errors == FileErrors(min_len, readlines(f.content), 1)
         IN  [ok |-> Len(errors) = 0, errors |-> errors]

(***************************************************************************)
(* Inputs of the validator.                                                *)
(***************************************************************************)
\* a run is one character repeated; the lengths sit around the minimum length
RunChars == {"a", "?", " "}
RunLens == {1, MIN_DILEMMA_LENGTH - 1, MIN_DILEMMA_LENGTH}
Runs == {Repeat(c, n) : c \in RunChars, n \in RunLens}

RECURSIVE TextsOfRuns(_)
TextsOfRuns(n) ==
    IF n = 0 THEN {<<>>}
    ELSE LET shorter == TextsOfRuns(n - 1)
         IN  shorter \cup {t \o r : t \in shorter, r \in Runs}

ValidatorTexts == TextsOfRuns(MaxRuns)
NonStrings == {NoneValue, IntValue(<<"0">>), IntValue(<<"5">>), EmptyList}
ValidatorInputs == {Str(t) : t \in ValidatorTexts} \cup NonStrings

\* the lines a dilemmas file is made of (without their line end)
LongValid == Repeat("a", MIN_DILEMMA_LENGTH - 1) \o <<"?">>
LinePool == {
    <<>>,
    <<" ", " ">>,
    <<"a", "?">>,
    LongValid,
    Repeat("a", MIN_DILEMMA_LENGTH),
    <<" ">> \o Repeat("a", MIN_DILEMMA_LENGTH - 2) \o <<"?">>
  }

RECURSIVE LineSeqs(_)
LineSeqs(n) ==
    IF n = 0 THEN {<<>>}
    ELSE LET shorter == LineSeqs(n - 1)
         IN  shorter \cup {Append(ls, l) : ls \in shorter, l \in LinePool}

\* the file's text: every line ends with a newline
FileContent(ls) == Concat([i \in 1..Len(ls) |-> ls[i] \o <<"\n">>])

VARIABLES
    min_dilemma_length,  \* DilemmaValidator.min_dilemma_length
    valOp,               \* the validator call made: "none", "text", "file", "nofile"
    valInput,            \* its argument: a Python value
    valFile,             \* the file it read: [readable, lines, content]
    valResult            \* what it returned

validatorVars == <<min_dilemma_length, valOp, valInput, valFile, valResult>>

NoFile == [readable |-> FALSE, lines |-> <<>>, content |-> <<>>]
NoResult == [ok |-> FALSE, msg |-> Msg("", <<>>), errors |-> <<>>]

ValidatorInit ==
    /\ min_dilemma_length = MIN_DILEMMA_LENGTH
    /\ valOp = "none"
    /\ valInput = NoneValue
    /\ valFile = NoFile
    /\ valResult = NoResult

\* validator.validate_dilemma_text(d)
ValidateDilemmaText ==
    \E d \in ValidatorInputs :
        LET r == validate_dilemma_text(min_dilemma_length, d)
        IN  /\ valOp = "none"
            /\ valOp' = "text"
            /\ valInput' = d
            /\ valFile' = NoFile
            /\ valResult' = [ok |-> r.ok, msg |-> r.msg, errors |-> <<>>]
            /\ UNCHANGED min_dilemma_length

\* validator.validate_dilemmas_file(path) on a file that can be read
ValidateDilemmasFile ==
    \E ls \in LineSeqs(MaxLines) :
        LET f == [readable |-> TRUE, lines |-> ls, content |-> FileContent(ls)]
            r == validate_dilemmas_file(min_dilemma_length, f)
        IN  /\ valOp = "none"
            /\ valOp' = "file"
            /\ valInput' = NoneValue
            /\ valFile' = f
            /\ valResult' = [ok |-> r.ok, msg |-> Msg("", <<>>), errors |-> r.errors]
            /\ UNCHANGED min_dilemma_length

\* validator.validate_dilemmas_file(path) on a file that open() refuses
ValidateUnreadableFile ==
    LET r == validate_dilemmas_file(min_dilemma_length, NoFile)
    IN  /\ valOp = "none"
        /\ valOp' = "nofile"
        /\ valInput' = NoneValue
        /\ valFile' = NoFile
        /\ valResult' = [ok |-> r.ok, msg |-> Msg("", <<>>), errors |-> r.errors]
        /\ UNCHANGED min_dilemma_length


(***************************************************************************)
(* prompts.py: the four stage templates.  A line of a template's fixed     *)
(* text is one token; the line ends and the interpolated texts are         *)
(* characters.                                                             *)
(***************************************************************************)
NL == <<"\n">>

\* the lines of a template's fixed text, joined by line ends
RECURSIVE Lines(_)
Lines(ls) ==
    IF ls = <<>> THEN <<>>
    ELSE IF Len(ls) = 1 THEN <<ls[1]>>
    ELSE <<Head(ls)>> \o NL \o Lines(Tail(ls))

\* "\n".join(f"- {p}" for p in items)
RECURSIVE BulletJoin(_)
BulletJoin(items) ==
    IF items = <<>> THEN <<>>
    ELSE IF Len(items) = 1 THEN <<"-", " ">> \o items[1]
    ELSE <<"-", " ">> \o Head(items) \o NL \o BulletJoin(Tail(items))

PrincipleTask == Lines(<<
    "Your task is to identify the key ethical principles that should guide the reasoning process.",
    "Think step by step:",
    "1. What are the fundamental ethical values at stake?",
    "2. Which ethical frameworks are most relevant?",
    "3. What principles should guide the decision-making process?",
    "",
    "List each principle on a new line, starting with a bullet point.">>)

ReasoningTask == Lines(<<
    "Guide your reasoning process through these steps:",
    "1. How does each principle apply to this situation?",
    "2. What are the potential conflicts between principles?",
    "3. How should these conflicts be resolved?",
    "4. What are the implications of different approaches?",
    "",
    "Provide your reasoning in a clear, structured format.">>)

RecommendationTask == Lines(<<
    "Generate specific, actionable recommendations that:",
    "1. Address the core ethical concerns",
    "2. Provide clear guidance for implementation",
    "3. Consider potential challenges",
    "4. Include monitoring and evaluation steps",
    "",
    "List each recommendation on a new line, starting with a bullet point.">>)

ConfidenceTask == Lines(<<
    "On a scale of 0.0 to 1.0, how confident are you in your reasoning process?",
    "Consider:",
    "1. The clarity of your analysis",
    "2. The consistency of your approach",
    "3. The strength of your recommendations",
    "4. Any remaining uncertainties",
    "",
    "Provide a single number between 0.0 and 1.0.">>)

\* EthicalPromptTemplates.get_principle_identification_prompt
get_principle_identification_prompt(dilemma) ==
    NL \o <<"Consider the following ethical dilemma:">> \o NL
       \o dilemma \o NL
       \o NL \o PrincipleTask \o NL

\* EthicalPromptTemplates.get_reasoning_prompt
get_reasoning_prompt(dilemma, principles) ==
    NL \o <<"Given the ethical dilemma:">> \o NL
       \o dilemma \o NL
       \o NL \o <<"And the identified principles:">> \o NL
       \o BulletJoin(principles) \o NL
       \o NL \o ReasoningTask \o NL

\* mutant: the reasoning text is left out of the recommendation prompt
get_recommendation_prompt_blank(reasoning) ==
    NL \o <<"Based on your reasoning:">> \o NL
       \o NL
       \o NL \o RecommendationTask \o NL

\* EthicalPromptTemplates.get_recommendation_prompt
get_recommendation_prompt(reasoning) ==
    NL \o <<"Based on your reasoning:">> \o NL
       \o reasoning \o NL
       \o NL \o RecommendationTask \o NL

\* mutant: the reasoning is left out of the confidence prompt
get_confidence_prompt_noreasoning(dilemma, reasoning, recommendations) ==
    NL \o <<"Review your analysis of the dilemma:">> \o NL
       \o dilemma \o NL
       \o NL \o <<"Your reasoning process:">> \o NL
       \o NL
       \o NL \o <<"Your recommendations:">> \o NL
       \o BulletJoin(recommendations) \o NL
       \o NL \o ConfidenceTask \o NL

\* EthicalPromptTemplates.get_confidence_prompt
get_confidence_prompt(dilemma, reasoning, recommendations) ==
    NL \o <<"Review your analysis of the dilemma:">> \o NL
       \o dilemma \o NL
       \o NL \o <<"Your reasoning process:">> \o NL
       \o reasoning \o NL
       \o NL \o <<"Your recommendations:">> \o NL
       \o BulletJoin(recommendations) \o NL
       \o NL \o ConfidenceTask \o NL

(***************************************************************************)
(* Parsing of a model response (the chain's stage helpers).                *)
(***************************************************************************)
\* text.split("\n")
RECURSIVE SplitLines(_)
SplitLines(s) ==
    LET nl == IndexFrom(s, "\n", 1)
    IN  IF nl = 0 THEN <<s>>
        ELSE <<SubSeq(s, 1, nl - 1)>> \o SplitLines(SubSeq(s, nl + 1, Len(s)))

IsBlank(l) == Strip(l) = <<>>

\* the lines of a response, the blank ones discarded
NonBlankLines(response) == SelectSeq(SplitLines(response), LAMBDA l : ~IsBlank(l))

Digits == {"0", "1", "2", "3", "4", "5", "6", "7", "8", "9"}
DigitValue(c) ==
    CASE c = "0" -> 0 [] c = "1" -> 1 [] c = "2" -> 2 [] c = "3" -> 3
      [] c = "4" -> 4 [] c = "5" -> 5 [] c = "6" -> 6 [] c = "7" -> 7
      [] c = "8" -> 8 [] c = "9" -> 9

\* whether float(text) succeeds, for the decimal notations d, d.d and d.dd
IsFloat(text) ==
    LET t == Strip(text)
    IN  \/ (Len(t) = 1 /\ t[1] \in Digits)
        \/ (Len(t) \in {3, 4} /\ t[1] \in Digits /\ t[2] = "."
              /\ \A i \in 3..Len(t) : t[i] \in Digits)

\* float(text), in hundredths
FloatValue(text) ==
    LET t == Strip(text)
    IN  100 * DigitValue(t[1])
          + (IF Len(t) >= 3 THEN 10 * DigitValue(t[3]) ELSE 0)
          + (IF Len(t) >= 4 THEN DigitValue(t[4]) ELSE 0)

\* the confidence a response that is no number gets, in hundredths
DEFAULT_CONFIDENCE == 50

\* the confidence score of a response: the parsed number, else the default
ParseConfidence(response) ==
    IF IsFloat(response) THEN FloatValue(response) ELSE DEFAULT_CONFIDENCE


(***************************************************************************)
(* chainer.py: EthicalPromptChainer.analyze_dilemma.                       *)
(*                                                                         *)
(* The stage helpers the method calls (_identify_ethical_principles,       *)
(* _analyze_dilemma, _generate_recommendations,                            *)
(* _calculate_confidence_score, _analyze_ethical_alignment,                *)
(* _analyze_stakeholder_impacts) and the model client are not part of the  *)
(* sources: a core stage sends its template's prompt to the model client   *)
(* in one blocking call that returns a text or raises, and parses the text.*)
(***************************************************************************)
CoreStages == <<"principles", "analysis", "recommendations", "confidence">>
OptionalStages == <<"benchmark", "alignment", "stakeholder", "longterm", "explanation">>
StageOrder == CoreStages \o OptionalStages

Range(f) == {f[i] : i \in DOMAIN f}
IsCore(s) == s \in Range(CoreStages)
IsOptional(s) == s \in Range(OptionalStages)

\* the canned model clients: the text each answers a stage's prompt with
ModelClients == {
    \* bulleted lists, a confidence that parses
    [principles |-> <<"-", " ", "a", "\n", "-", " ", "b">>,
     analysis |-> <<"a">>,
     recommendations |-> <<"-", " ", "c">>,
     confidence |-> <<"0", ".", "8", "5">>],
    \* no bullets, blank lines, a confidence that is no number
    [principles |-> <<"a", "\n", "\n", "b">>,
     analysis |-> <<"a", "\n", "\n", "b", "\n">>,
     recommendations |-> <<"c", "\n", "\n", "d">>,
     confidence |-> <<"n", "o", "t", " ", "a", " ", "n", "u", "m", "b", "e", "r">>],
    \* one line each
    [principles |-> <<"a">>,
     analysis |-> <<"b">>,
     recommendations |-> <<"c">>,
     confidence |-> <<"1">>]
  }

\* a value an optional stage produces: an object, or a list or dict by its items
Value(type, items) == [type |-> type, val |-> items]
IsNone(v) == v.type = "NoneType"

VARIABLES
    chainer,            \* the EthicalPromptChainer: [model, benchmarker, benchmark_models,
                        \* explainer, client]
    pc,                 \* where analyze_dilemma stands: "idle", a stage, "return", "returned", "raised"
    inflight,           \* the stage at pc has been called and has not come back
    call,               \* the arguments: [dilemma, context, include_benchmark]
    principles,         \* the locals of analyze_dilemma
    analysis,
    recommendations,
    confidence_score,
    benchmark_results,
    ethical_alignment,
    stakeholder_impacts,
    long_term_impact,
    ai_explanation,
    result,             \* the EthicalAnalysis returned, None before
    trace               \* history of this run: the stage calls (with the prompt sent),
                        \* returns (with the text received) and raises, in order

localVars == <<principles, analysis, recommendations, confidence_score,
               benchmark_results, ethical_alignment, stakeholder_impacts,
               long_term_impact, ai_explanation>>
chainVars == <<chainer, pc, inflight, call, localVars, result, trace>>

NoChainer == [model |-> "", benchmarker |-> FALSE, benchmark_models |-> NoneValue,
              explainer |-> FALSE, client |-> CHOOSE c \in ModelClients : TRUE]
NoCall == [dilemma |-> <<>>, context |-> NoneValue, include_benchmark |-> FALSE]

ChainInit ==
    /\ chainer = NoChainer
    /\ pc = "idle"
    /\ inflight = FALSE
    /\ call = NoCall
    /\ principles = <<>>
    /\ analysis = <<>>
    /\ recommendations = <<>>
    /\ confidence_score = 0
    /\ benchmark_results = NoneValue
    /\ ethical_alignment = NoneValue
    /\ stakeholder_impacts = NoneValue
    /\ long_term_impact = NoneValue
    /\ ai_explanation = NoneValue
    /\ result = NoneValue
    /\ trace = <<>>

\* EthicalPromptChainer.__init__
NewChainer(model, include_benchmark, benchmark_models, include_explanation, client) ==
    [model |-> model,
     benchmarker |-> include_benchmark,
     benchmark_models |-> IF include_benchmark THEN benchmark_models ELSE NoneValue,
     explainer |-> include_explanation,
     client |-> client]

\* the entry of analyze_dilemma: the locals are fresh, step 1 is next
EnterAnalyzeDilemma(c, dilemma, context, include_benchmark) ==
    /\ chainer' = c
    /\ call' = [dilemma |-> dilemma, context |-> context,
                include_benchmark |-> include_benchmark]
    /\ pc' = "principles"
    /\ inflight' = FALSE
    /\ principles' = <<>>
    /\ analysis' = <<>>
    /\ recommendations' = <<>>
    /\ confidence_score' = 0
    /\ benchmark_results' = NoneValue
    /\ ethical_alignment' = NoneValue
    /\ stakeholder_impacts' = NoneValue
    /\ long_term_impact' = NoneValue
    /\ ai_explanation' = NoneValue
    /\ result' = NoneValue
    /\ trace' = <<>>

\* the prompt a core stage sends
StagePrompt(s) ==
    CASE s = "principles" -> get_principle_identification_prompt(call.dilemma)
      [] s = "analysis" -> get_reasoning_prompt(call.dilemma, principles)
      [] s = "recommendations" -> get_recommendation_prompt(analysis)
      [] s = "confidence" ->
            get_confidence_prompt(call.dilemma, analysis, recommendations)

\* mutant: step 5 runs whatever the benchmark model list holds
BenchmarkRequested_any_list ==
    /\ call.include_benchmark
    /\ chainer.benchmarker

\* step 5 runs: include_benchmark and self.benchmarker and self.benchmark_models
BenchmarkRequested ==
    /\ call.include_benchmark
    /\ chainer.benchmarker
    /\ Truthy(chainer.benchmark_models)

\* mutant: a failed core stage is skipped like an optional one
AfterCoreFailure_continue(s) ==
    CASE s = "principles" -> "analysis"
      [] s = "analysis" -> "recommendations"
      [] s = "recommendations" -> "confidence"
      [] s = "confidence" -> "alignment"

\* mutant: a failed core stage is called again
AfterCoreFailure_retry(s) == s

\* where an exception raised by a core stage leads: out of analyze_dilemma
AfterCoreFailure(s) == "raised"

\* the statement that follows stage s in analyze_dilemma
AfterStage(s) ==
    CASE s = "principles" -> "analysis"
      [] s = "analysis" -> "recommendations"
      [] s = "recommendations" -> "confidence"
      [] s = "confidence" -> IF BenchmarkRequested THEN "benchmark" ELSE "alignment"
      [] s = "benchmark" -> "alignment"
      [] s = "alignment" -> "stakeholder"
      [] s = "stakeholder" -> "longterm"
      [] s = "longterm" -> IF chainer.explainer THEN "explanation" ELSE "return"
      [] s = "explanation" -> "return"


\* mutant: no except clause around the optional stages
AfterOptionalFailure_uncaught(s) == "raised"

\* where an exception raised by an optional stage leads: its except clause
\* logs it and the method goes on
AfterOptionalFailure(s) == AfterStage(s)

Event(stage, kind, text) == [stage |-> stage, kind |-> kind, text |-> text]

\* a stage is called: a core stage sends its prompt to the model client
StageCall ==
    /\ pc \in Range(StageOrder)
    /\ ~inflight
    /\ inflight' = TRUE
    /\ trace' = Append(trace,
          Event(pc, "call", IF IsCore(pc) THEN StagePrompt(pc) ELSE <<>>))
    /\ UNCHANGED <<chainer, pc, call, localVars, result>>

\* the model client answers a core stage, which parses the text
CoreReturn ==
    /\ IsCore(pc)
    /\ inflight
    /\ LET response == chainer.client[pc]
       IN  /\ principles' =
                 IF pc = "principles" THEN NonBlankLines(response) ELSE principles
           /\ analysis' = IF pc = "analysis" THEN response ELSE analysis
           /\ recommendations' =
                 IF pc = "recommendations" THEN NonBlankLines(response)
                 ELSE recommendations
           /\ confidence_score' =
                 IF pc = "confidence" THEN ParseConfidence(response)
                 ELSE confidence_score
           /\ trace' = Append(trace, Event(pc, "return", response))
    /\ pc' = AfterStage(pc)
    /\ inflight' = FALSE
    /\ UNCHANGED <<chainer, call, benchmark_results, ethical_alignment,
                   stakeholder_impacts, long_term_impact, ai_explanation, result>>

\* the model call of a core stage fails: nothing in analyze_dilemma catches it
CoreRaise ==
    /\ IsCore(pc)
    /\ inflight
    /\ trace' = Append(trace, Event(pc, "raise", <<>>))
    /\ pc' = AfterCoreFailure(pc)
    /\ inflight' = FALSE
    /\ UNCHANGED <<chainer, call, localVars, result>>

\* the local an optional stage assigns
OptionalAssign(s, v) ==
    /\ benchmark_results' = IF s = "benchmark" THEN v ELSE benchmark_results
    /\ ethical_alignment' = IF s = "alignment" THEN v ELSE ethical_alignment
    /\ stakeholder_impacts' = IF s = "stakeholder" THEN v ELSE stakeholder_impacts
    /\ long_term_impact' = IF s = "longterm" THEN v ELSE long_term_impact
    /\ ai_explanation' = IF s = "explanation" THEN v ELSE ai_explanation

\* the results an optional stage can come back with: the alignment scores
\* and the stakeholder impacts may be empty
StageResults(s) ==
    CASE s = "benchmark" -> {Value("BenchmarkMetrics", <<>>)}
      [] s = "alignment" -> {Value("dict", <<>>), Value("dict", <<"score">>)}
      [] s = "stakeholder" -> {Value("list", <<>>), Value("list", <<"impact">>)}
      [] s = "longterm" -> {Value("LongTermImpact", <<>>)}
      [] s = "explanation" -> {Value("AIExplanation", <<>>)}

\* an optional stage comes back with its result
OptionalReturn ==
    /\ IsOptional(pc)
    /\ inflight
    /\ \E v \in StageResults(pc) : OptionalAssign(pc, v)
    /\ trace' = Append(trace, Event(pc, "return", <<>>))
    /\ pc' = AfterStage(pc)
    /\ inflight' = FALSE
    /\ UNCHANGED <<chainer, call, principles, analysis, recommendations,
                   confidence_score, result>>

\* an optional stage raises: the except clause leaves its local None
OptionalRaise ==
    /\ IsOptional(pc)
    /\ inflight
    /\ OptionalAssign(pc, NoneValue)
    /\ trace' = Append(trace, Event(pc, "raise", <<>>))
    /\ pc' = AfterOptionalFailure(pc)
    /\ inflight' = FALSE
    /\ UNCHANGED <<chainer, call, principles, analysis, recommendations,
                   confidence_score, result>>

\* context or []
OrEmptyList(v) == IF Truthy(v) THEN v ELSE EmptyList

\* mutant: the result carries the default confidence, not the stage's
ReturnAnalysis_default_confidence ==
    /\ pc = "return"
    /\ ~inflight
    /\ result' = [type |-> "EthicalAnalysis",
                  val |-> <<>>,
                  dilemma |-> call.dilemma,
                  context |-> OrEmptyList(call.context),
                  ethical_principles |-> principles,
                  analysis |-> analysis,
                  recommendations |-> recommendations,
                  confidence_score |-> DEFAULT_CONFIDENCE,
                  model_used |-> chainer.model,
                  benchmark_results |-> benchmark_results,
                  ethical_alignment |-> ethical_alignment,
                  stakeholder_impacts |-> stakeholder_impacts,
                  long_term_impact |-> long_term_impact,
                  ai_explanation |-> ai_explanation]
    /\ pc' = "returned"
    /\ UNCHANGED <<chainer, inflight, call, localVars, trace>>

\* return EthicalAnalysis(...)
ReturnAnalysis ==
    /\ pc = "return"
    /\ ~inflight
    /\ result' = [type |-> "EthicalAnalysis",
                  val |-> <<>>,
                  dilemma |-> call.dilemma,
                  context |-> OrEmptyList(call.context),
                  ethical_principles |-> principles,
                  analysis |-> analysis,
                  recommendations |-> recommendations,
                  confidence_score |-> confidence_score,
                  model_used |-> chainer.model,
                  benchmark_results |-> benchmark_results,
                  ethical_alignment |-> ethical_alignment,
                  stakeholder_impacts |-> stakeholder_impacts,
                  long_term_impact |-> long_term_impact,
                  ai_explanation |-> ai_explanation]
    /\ pc' = "returned"
    /\ UNCHANGED <<chainer, inflight, call, localVars, trace>>


(***************************************************************************)
(* chainer.py: EthicalPromptChainer.format_analysis.  The report is a text:*)
(* a fixed line is one token, the interpolated texts are characters.  The  *)
(* sections other objects format (format_benchmark_results,                *)
(* format_impact_analysis, format_explanation) are one token each.         *)
(***************************************************************************)
\* the bullet line of each item (the bullet character is written "*")
RECURSIVE Bullets(_)
Bullets(items) ==
    IF items = <<>> THEN <<>>
    ELSE <<"*", " ">> \o Head(items) \o NL \o Bullets(Tail(items))

\* f"{x:.1%}" of a score in hundredths
Percent(x) == <<ToString(x), ".0%">>

Rule == <<"------------------------------">>

\* ', '.join(context)
ContextText(c) == IF c.val = <<>> THEN <<>> ELSE <<"context">>

\* mutant: the dilemma is written stripped
ReportHead_stripped(a) ==
    <<"Ethical Analysis Report">> \o NL
    \o <<"==================================================">> \o NL \o NL
    \o <<"Dilemma: ">> \o Strip(a.dilemma) \o NL
    \o <<"Context: ">> \o ContextText(a.context) \o NL
    \o <<"Model Used: ", a.model_used>> \o NL
    \o <<"Timestamp: ", "{timestamp}">> \o NL \o NL

\* the head of the report: what the files and the terminal keep of a report
\* written to them
ReportHead(a) ==
    <<"Ethical Analysis Report">> \o NL
    \o <<"==================================================">> \o NL \o NL
    \o <<"Dilemma: ">> \o a.dilemma \o NL
    \o <<"Context: ">> \o ContextText(a.context) \o NL
    \o <<"Model Used: ", a.model_used>> \o NL
    \o <<"Timestamp: ", "{timestamp}">> \o NL \o NL

\* mutant: a section for every sub-analysis that is not None
format_analysis_not_none(a) ==
    ReportHead(a)
    \o <<"Ethical Principles:">> \o NL \o Rule \o NL
    \o Bullets(a.ethical_principles) \o NL
    \o <<"Analysis:">> \o NL \o Rule \o NL
    \o a.analysis \o NL \o NL
    \o <<"Recommendations:">> \o NL \o Rule \o NL
    \o Bullets(a.recommendations) \o NL
    \o <<"Confidence Score: ">> \o Percent(a.confidence_score) \o NL \o NL
    \o (IF a.benchmark_results # NoneValue
        THEN <<"Model Benchmark Results:">> \o NL \o Rule \o NL
             \o <<"{format_benchmark_results}">> \o NL \o NL
        ELSE <<>>)
    \o (IF a.ethical_alignment # NoneValue
        THEN <<"Ethical Alignment Analysis:">> \o NL \o Rule \o NL
             \o <<"*", " ", "{principle}: {score:.1%}">> \o NL \o NL
        ELSE <<>>)
    \o (IF a.stakeholder_impacts # NoneValue
        THEN <<"Stakeholder Impact Analysis:">> \o NL \o Rule \o NL
             \o NL \o <<"Stakeholder: ", "{impact}">> \o NL \o NL
        ELSE <<>>)
    \o (IF a.long_term_impact # NoneValue
        THEN <<"{format_impact_analysis}">>
        ELSE <<>>)
    \o (IF a.ai_explanation # NoneValue
        THEN NL \o <<"{format_explanation}">>
        ELSE <<>>)

\* the report
format_analysis(a) ==
    ReportHead(a)
    \o <<"Ethical Principles:">> \o NL \o Rule \o NL
    \o Bullets(a.ethical_principles) \o NL
    \o <<"Analysis:">> \o NL \o Rule \o NL
    \o a.analysis \o NL \o NL
    \o <<"Recommendations:">> \o NL \o Rule \o NL
    \o Bullets(a.recommendations) \o NL
    \o <<"Confidence Score: ">> \o Percent(a.confidence_score) \o NL \o NL
    \o (IF Truthy(a.benchmark_results)
        THEN <<"Model Benchmark Results:">> \o NL \o Rule \o NL
             \o <<"{format_benchmark_results}">> \o NL \o NL
        ELSE <<>>)
    \o (IF Truthy(a.ethical_alignment)
        THEN <<"Ethical Alignment Analysis:">> \o NL \o Rule \o NL
             \o <<"*", " ", "{principle}: {score:.1%}">> \o NL \o NL
        ELSE <<>>)
    \o (IF Truthy(a.stakeholder_impacts)
        THEN <<"Stakeholder Impact Analysis:">> \o NL \o Rule \o NL
             \o NL \o <<"Stakeholder: ", "{impact}">> \o NL \o NL
        ELSE <<>>)
    \o (IF Truthy(a.long_term_impact)
        THEN <<"{format_impact_analysis}">>
        ELSE <<>>)
    \o (IF Truthy(a.ai_explanation)
        THEN NL \o <<"{format_explanation}">>
        ELSE <<>>)


(***************************************************************************)
(* cli.py: the analyze and batch commands, and a library caller of         *)
(* analyze_dilemma.  The commands build their chainer as                   *)
(* EthicalPromptChainer(model_name=..., device=...) and write the result's *)
(* framing, stakeholders, consequences, principles and solution: the       *)
(* chainer variant with that interface is not part of the sources, so the  *)
(* construction succeeds with the defaults of chainer.py and those fields  *)
(* are one token each.                                                     *)
(***************************************************************************)
\* the dilemmas given on the command line or as lines of the input file
ShortQuestion == <<"a", "?">>
BlankLine == <<" ", " ">>
CliDilemmas == {LongValid, ShortQuestion, BlankLine, <<>>}
BatchLinePool == {LongValid, ShortQuestion, BlankLine}

RECURSIVE BatchLineSeqs(_)
BatchLineSeqs(n) ==
    IF n = 0 THEN {<<>>}
    ELSE LET shorter == BatchLineSeqs(n - 1)
         IN  shorter \cup {Append(ls, l) : ls \in shorter, l \in BatchLinePool}

\* str.splitlines(): the lines without their line ends
splitlines(s) ==
    IF s = <<>> THEN <<>>
    ELSE IF s[Len(s)] = "\n" THEN SplitLines(SubSeq(s, 1, Len(s) - 1))
    ELSE SplitLines(s)

\* the model lists of the batch command: the default, or one parsed from --models
DefaultModels == <<"gpt-4", "grok-3">>
ModelLists == {DefaultModels, <<"gpt-4">>}

\* the files the commands write
FileName(kind, model, i) == [kind |-> kind, model |-> model, i |-> i]
OutputFile == FileName("output", "", 0)
CsvFile == FileName("csv", "", 0)
TxtFile(model, i) == FileName("txt", model, i)
FileNames ==
    {OutputFile, CsvFile}
        \cup {TxtFile(m, i) : m \in Range(DefaultModels), i \in 1..MaxBatchLines}

Absent == [exists |-> FALSE, data |-> <<>>]
Written(data) == [exists |-> TRUE, data |-> data]

CsvHeader == <<<<"Model">>, <<"Dilemma">>, <<"Framing">>, <<"Stakeholders">>,
               <<"Consequences">>, <<"Principles">>, <<"Solution">>>>
CsvRow(model_name, a) ==
    <<<<model_name>>, a.dilemma, <<"{framing}">>, <<"{stakeholders}">>,
      <<"{consequences}">>, <<"{principles}">>, <<"{solution}">>>>

VARIABLES
    cmd,        \* the caller: "none", "api", "analyze", "batch"
    cliPc,      \* where the command stands: "idle", "model", "dilemma",
                \* "analyzing", "done", "failed" (ClickException)
    cliArgs,    \* the command's options: [output, format]
    dilemmas,   \* batch: the lines of the input file
    model_list, \* batch: the models
    mi,         \* batch: the position in model_list
    di,         \* batch: the position in dilemmas (enumerate from 1)
    files,      \* the file system: file name -> [exists, data]
    stdout      \* what click.echo printed, in order

cliVars == <<cmd, cliPc, cliArgs, dilemmas, model_list, mi, di, files, stdout>>

NoArgs == [output |-> FALSE, format |-> "txt"]

CliInit ==
    /\ cmd = "none"
    /\ cliPc = "idle"
    /\ cliArgs = NoArgs
    /\ dilemmas = <<>>
    /\ model_list = <<>>
    /\ mi = 0
    /\ di = 0
    /\ files = [n \in FileNames |-> Absent]
    /\ stdout = <<>>

\* a library caller: EthicalPromptChainer(...).analyze_dilemma(...)
ApiAnalyze ==
    /\ cmd = "none"
    /\ \E d \in {LongValid, ShortQuestion},
          include_benchmark \in BOOLEAN,
          benchmark_models \in {NoneValue, EmptyList, Value("list", <<"gpt-4">>)},
          include_explanation \in BOOLEAN,
          context \in {NoneValue, Value("list", <<"context">>)},
          with_benchmark \in BOOLEAN,
          client \in ModelClients :
            EnterAnalyzeDilemma(
                NewChainer("gpt-4", include_benchmark, benchmark_models,
                           include_explanation, client),
                d, context, with_benchmark)
    /\ cmd' = "api"
    /\ cliPc' = "analyzing"
    /\ UNCHANGED <<cliArgs, dilemmas, model_list, mi, di, files, stdout>>

\* the chainer a command builds
CliChainer(model_name, client) ==
    NewChainer(model_name, FALSE, NoneValue, TRUE, client)

\* analyze: up to chainer.analyze_dilemma(dilemma)
CliAnalyze ==
    /\ cmd = "none"
    /\ \E d \in CliDilemmas, client \in ModelClients :
          EnterAnalyzeDilemma(CliChainer("distilgpt2", client), d, NoneValue, FALSE)
    /\ \E output \in BOOLEAN : cliArgs' = [output |-> output, format |-> "txt"]
    /\ cmd' = "analyze"
    /\ cliPc' = "analyzing"
    /\ UNCHANGED <<dilemmas, model_list, mi, di, files, stdout>>

\* analyze: the analysis is formatted and written to --output or echoed
CliAnalyzeOutput ==
    /\ cmd = "analyze"
    /\ cliPc = "analyzing"
    /\ pc = "returned"
    /\ LET formatted == ReportHead(result)
       IN  IF cliArgs.output
           THEN /\ files' = [files EXCEPT ![OutputFile] = Written(formatted)]
                /\ UNCHANGED stdout
           ELSE /\ stdout' = Append(stdout, formatted)
                /\ UNCHANGED files
    /\ cliPc' = "done"
    /\ UNCHANGED <<cmd, cliArgs, dilemmas, model_list, mi, di, chainVars>>

\* analyze, batch: except Exception: log it, raise click.ClickException
CliError ==
    /\ cmd \in {"analyze", "batch"}
    /\ cliPc = "analyzing"
    /\ pc = "raised"
    /\ cliPc' = "failed"
    /\ UNCHANGED <<cmd, cliArgs, dilemmas, model_list, mi, di, files, stdout,
                   chainVars>>


\* the frame of analyze_dilemma is gone
ReleaseFrame ==
    /\ pc' = "idle"
    /\ inflight' = FALSE
    /\ call' = NoCall
    /\ principles' = <<>>
    /\ analysis' = <<>>
    /\ recommendations' = <<>>
    /\ confidence_score' = 0
    /\ benchmark_results' = NoneValue
    /\ ethical_alignment' = NoneValue
    /\ stakeholder_impacts' = NoneValue
    /\ long_term_impact' = NoneValue
    /\ ai_explanation' = NoneValue
    /\ result' = NoneValue
    /\ trace' = <<>>

\* mutant: the call leaves a mark on the chainer: the next one finds other answers
LeaveAnalyzeDilemma_marked ==
    /\ ReleaseFrame
    /\ \E client \in ModelClients \ {chainer.client} :
          chainer' = [chainer EXCEPT !.client = client]

\* the frame of analyze_dilemma is gone once the caller has used the result
LeaveAnalyzeDilemma == ReleaseFrame /\ UNCHANGED chainer

\* batch: the input file is read and the model list parsed; the command was
\* given one of these --output-dir and --format options
CliBatchOf(outputs, formats) ==
    /\ cmd = "none"
    /\ \E ls \in BatchLineSeqs(MaxBatchLines), ms \in ModelLists,
          output \in outputs, format \in formats :
            /\ dilemmas' = splitlines(FileContent(ls))
            /\ model_list' = ms
            /\ cliArgs' = [output |-> output, format |-> format]
    /\ cmd' = "batch"
    /\ cliPc' = "model"
    /\ mi' = 1
    /\ di' = 0
    /\ UNCHANGED <<files, stdout, chainVars>>

CliBatch == CliBatchOf(BOOLEAN, {"txt", "csv"})

\* batch --output-dir DIR --format csv
CliBatchCsv == CliBatchOf({TRUE}, {"csv"})

\* batch: for model_name in model_list: the chainer of this model is built
BatchModel ==
    /\ cmd = "batch"
    /\ cliPc = "model"
    /\ \E client \in ModelClients : chainer' = CliChainer(model_list[mi], client)
    /\ di' = 1
    /\ cliPc' = "dilemma"
    /\ UNCHANGED <<cmd, cliArgs, dilemmas, model_list, mi, files, stdout,
                   pc, inflight, call, localVars, result, trace>>

\* batch: if not dilemma.strip(): continue
BatchSkipBlank ==
    /\ cmd = "batch"
    /\ cliPc = "dilemma"
    /\ di <= Len(dilemmas)
    /\ Strip(dilemmas[di]) = <<>>
    /\ di' = di + 1
    /\ UNCHANGED <<cmd, cliPc, cliArgs, dilemmas, model_list, mi, files, stdout,
                   chainVars>>

\* batch: analysis = chainer.analyze_dilemma(dilemma)
BatchAnalyze ==
    /\ cmd = "batch"
    /\ cliPc = "dilemma"
    /\ di <= Len(dilemmas)
    /\ Strip(dilemmas[di]) # <<>>
    /\ EnterAnalyzeDilemma(chainer, dilemmas[di], NoneValue, FALSE)
    /\ cliPc' = "analyzing"
    /\ UNCHANGED <<cmd, cliArgs, dilemmas, model_list, mi, di, files, stdout>>

\* mutant: the header is written before every row
AppendCsv_header_each_time(f, row) ==
    Written(f.data \o <<CsvHeader, row>>)

\* the csv file after one analysis: the header is written when the file does
\* not exist, then the row is appended
AppendCsv(f, row) ==
    LET started == IF f.exists THEN f ELSE Written(<<CsvHeader>>)
    IN  Written(Append(started.data, row))

\* batch: the result is written to its text file, appended to the csv file,
\* or echoed
BatchOutput ==
    /\ cmd = "batch"
    /\ cliPc = "analyzing"
    /\ pc = "returned"
    /\ LET model_name == model_list[mi]
           formatted == ReportHead(result)
       IN  IF cliArgs.output /\ cliArgs.format = "txt"
           THEN /\ files' = [files EXCEPT ![TxtFile(model_name, di)] =
                                Written(formatted)]
                /\ UNCHANGED stdout
           ELSE IF cliArgs.output
           THEN /\ files' = [files EXCEPT ![CsvFile] =
                                AppendCsv(files[CsvFile], CsvRow(model_name, result))]
                /\ UNCHANGED stdout
           ELSE /\ stdout' = stdout \o <<<<"Model: ", model_name>> \o NL \o formatted>>
                /\ UNCHANGED files
    /\ di' = di + 1
    /\ cliPc' = "dilemma"
    /\ LeaveAnalyzeDilemma
    /\ UNCHANGED <<cmd, cliArgs, dilemmas, model_list, mi>>

\* batch: the dilemmas of this model are done: the next model, or the end
BatchModelDone ==
    /\ cmd = "batch"
    /\ cliPc = "dilemma"
    /\ di > Len(dilemmas)
    /\ IF mi < Len(model_list)
       THEN mi' = mi + 1 /\ cliPc' = "model"
       ELSE mi' = mi /\ cliPc' = "done"
    /\ UNCHANGED <<cmd, cliArgs, dilemmas, model_list, di, files, stdout, chainVars>>

(***************************************************************************)
(* Commands run one after the other: the process of a command ends and the *)
(* next command finds the files the earlier ones left.                     *)
(***************************************************************************)
VARIABLES
    commands,       \* the commands that have ended
    csvAtStart      \* dilemmas.csv as the running command found it

sessionVars == <<commands, csvAtStart>>

SessionInit ==
    /\ commands = 0
    /\ csvAtStart = Absent

\* the command's process ends, after its last output or its ClickException:
\* the files stay
CliExit ==
    /\ cmd \in {"analyze", "batch"}
    /\ cliPc \in {"done", "failed"}
    /\ commands < MaxCommands
    /\ commands' = commands + 1
    /\ csvAtStart' = files[CsvFile]
    /\ cmd' = "none"
    /\ cliPc' = "idle"
    /\ cliArgs' = NoArgs
    /\ dilemmas' = <<>>
    /\ model_list' = <<>>
    /\ mi' = 0
    /\ di' = 0
    /\ stdout' = <<>>
    /\ chainer' = NoChainer
    /\ ReleaseFrame
    /\ UNCHANGED files

(***************************************************************************)
(* cli.py: the csv output of batch, one file operation at a time, for      *)
(* batch processes that share an output directory.  Each process was       *)
(* started with one model and writes the rows of its analyses; nothing in  *)
(* batch serializes the processes.                                         *)
(***************************************************************************)
Workers == <<"gpt-4", "grok-3">>

\* the row of worker w's k-th analysis
WorkerRow(w, k) == CsvRow(w, [dilemma |-> LongValid \o <<ToString(k)>>])

\* what is left of a row whose first bytes a header written at offset 0
\* has overwritten
Garbled(row) == <<"garbled">> \o row

VARIABLES
    sharedCsv,      \* dilemmas.csv: [exists, data], data the lines in order
    workerPc,       \* per worker: "exists", "open_w", "write_header", "append", "done"
    workerRows,     \* per worker: the analyses it makes
    workerDone      \* per worker: the analyses whose row it has appended

writerVars == <<sharedCsv, workerPc, workerRows, workerDone>>

WritersIdle ==
    /\ sharedCsv = Absent
    /\ workerPc = [w \in Range(Workers) |-> "done"]
    /\ workerRows = [w \in Range(Workers) |-> 0]
    /\ workerDone = [w \in Range(Workers) |-> 0]

\* every worker has at least one analysis to write
WritersInit ==
    /\ sharedCsv = Absent
    /\ workerPc = [w \in Range(Workers) |-> "exists"]
    /\ workerRows \in [Range(Workers) -> 1..MaxBatchLines]
    /\ workerDone = [w \in Range(Workers) |-> 0]

\* if not output_path.exists():
WorkerExists(w) ==
    /\ workerPc[w] = "exists"
    /\ workerPc' = [workerPc EXCEPT ![w] =
                       IF sharedCsv.exists THEN "append" ELSE "open_w"]
    /\ UNCHANGED <<sharedCsv, workerRows, workerDone>>

\* open(output_path, 'w'): the file is created or truncated
WorkerOpenHeader(w) ==
    /\ workerPc[w] = "open_w"
    /\ sharedCsv' = Written(<<>>)
    /\ workerPc' = [workerPc EXCEPT ![w] = "write_header"]
    /\ UNCHANGED <<workerRows, workerDone>>

\* writer.writerow(header) and the end of the with block: the header goes
\* to offset 0 of the file, over what another process has written there
\* since the open
WorkerWriteHeader(w) ==
    /\ workerPc[w] = "write_header"
    /\ sharedCsv' =
          IF sharedCsv.data = <<>> THEN Written(<<CsvHeader>>)
          ELSE IF sharedCsv.data[1] = CsvHeader THEN sharedCsv
          ELSE Written(<<CsvHeader, Garbled(sharedCsv.data[1])>>
                           \o Tail(sharedCsv.data))
    /\ workerPc' = [workerPc EXCEPT ![w] = "append"]
    /\ UNCHANGED <<workerRows, workerDone>>

\* open(output_path, 'a'), writer.writerow(row), the end of the with block;
\* then the next analysis, or the end of the loops
WorkerAppendRow(w) ==
    /\ workerPc[w] = "append"
    /\ sharedCsv' = Written(sharedCsv.data \o <<WorkerRow(w, workerDone[w] + 1)>>)
    /\ workerDone' = [workerDone EXCEPT ![w] = @ + 1]
    /\ workerPc' = [workerPc EXCEPT ![w] =
                       IF workerDone[w] + 1 < workerRows[w] THEN "exists" ELSE "done"]
    /\ UNCHANGED workerRows

(***************************************************************************)
(* benchmark.py and long_term_impact.py: the scorers.  A text is its       *)
(* characters; a score is the fraction num/den the float division yields,  *)
(* or the ZeroDivisionError it raises.                                     *)
(***************************************************************************)
UpperCase == <<"A", "B", "C", "D", "E", "F", "G", "H", "I", "J", "K", "L", "M",
               "N", "O", "P", "Q", "R", "S", "T", "U", "V", "W", "X", "Y", "Z">>
LowerCaseOf == <<"a", "b", "c", "d", "e", "f", "g", "h", "i", "j", "k", "l", "m",
                 "n", "o", "p", "q", "r", "s", "t", "u", "v", "w", "x", "y", "z">>

\* str.lower
lower(s) ==
    [i \in 1..Len(s) |->
        IF \E k \in DOMAIN UpperCase : UpperCase[k] = s[i]
        THEN LowerCaseOf[CHOOSE k \in DOMAIN UpperCase : UpperCase[k] = s[i]]
        ELSE s[i]]

\* the index of the first whitespace of s at or after i, Len(s) + 1 if none
RECURSIVE WordEnd(_, _)
WordEnd(s, i) ==
    IF i > Len(s) \/ IsWhitespace(s[i]) THEN i ELSE WordEnd(s, i + 1)

\* str.split(): the words between runs of whitespace
RECURSIVE split(_)
split(s) ==
    LET t == LStrip(s)
    IN  IF t = <<>> THEN <<>>
        ELSE LET e == WordEnd(t, 1)
             IN  <<SubSeq(t, 1, e - 1)>> \o split(SubSeq(t, e, Len(t)))

Fraction(n, d) == [raised |-> FALSE, num |-> n, den |-> d]
ZeroDivisionError == [raised |-> TRUE, num |-> 0, den |-> 1]

\* min(x, 1.0)
MinOne(x) == IF x.num > x.den THEN Fraction(1, 1) ELSE x

\* sum(1 for term in terms if term.lower() in text.lower())
TermsFound(terms, text) ==
    Cardinality({i \in DOMAIN terms : Contains(lower(text), lower(terms[i]))})

\* ModelBenchmarker.CONSTITUTIONAL_PRINCIPLES
CONSTITUTIONAL_PRINCIPLES == <<
    <<"g", "e", "n", "e", "r", "a", "l", " ", "w", "e", "l", "f", "a", "r",
      "e">>,
    <<"e", "q", "u", "a", "l", " ", "p", "r", "o", "t", "e", "c", "t", "i",
      "o", "n">>,
    <<"d", "u", "e", " ", "p", "r", "o", "c", "e", "s", "s">>,
    <<"i", "n", "d", "i", "v", "i", "d", "u", "a", "l", " ", "l", "i", "b",
      "e", "r", "t", "y">>,
    <<"p", "r", "o", "p", "e", "r", "t", "y", " ", "r", "i", "g", "h", "t",
      "s">>,
    <<"f", "e", "d", "e", "r", "a", "l", "i", "s", "m">>,
    <<"s", "e", "p", "a", "r", "a", "t", "i", "o", "n", " ", "o", "f", " ",
      "p", "o", "w", "e", "r", "s">>
  >>

\* ModelBenchmarker._calculate_constitutional_coverage
_calculate_constitutional_coverage(response) ==
    Fraction(TermsFound(CONSTITUTIONAL_PRINCIPLES, response),
             Len(CONSTITUTIONAL_PRINCIPLES))

\* the indicators of _calculate_recommendation_clarity
clarity_indicators == <<
    <<"r", "e", "c", "o", "m", "m", "e", "n", "d">>,
    <<"p", "r", "o", "p", "o", "s", "e">>,
    <<"s", "u", "g", "g", "e", "s", "t">>,
    <<"c", "o", "n", "c", "l", "u", "d", "e">>,
    <<"t", "h", "e", "r", "e", "f", "o", "r", "e">>,
    <<"s", "h", "o", "u", "l", "d">>,
    <<"m", "u", "s", "t">>,
    <<"n", "e", "e", "d", " ", "t", "o">>
  >>

\* ModelBenchmarker._calculate_recommendation_clarity
_calculate_recommendation_clarity(response) ==
    MinOne(Fraction(TermsFound(clarity_indicators, response),
                    Len(clarity_indicators)))

\* the indicators of _calculate_ethical_consistency
consistency_indicators == <<
    <<"e", "t", "h", "i", "c", "a", "l">>,
    <<"m", "o", "r", "a", "l">>,
    <<"p", "r", "i", "n", "c", "i", "p", "l", "e">>,
    <<"v", "a", "l", "u", "e">>,
    <<"r", "i", "g", "h", "t">>,
    <<"w", "r", "o", "n", "g">>,
    <<"j", "u", "s", "t">>,
    <<"f", "a", "i", "r">>,
    <<"e", "q", "u", "i", "t", "a", "b", "l", "e">>,
    <<"b", "a", "l", "a", "n", "c", "e", "d">>
  >>

\* ModelBenchmarker._calculate_ethical_consistency
_calculate_ethical_consistency(response) ==
    MinOne(Fraction(TermsFound(consistency_indicators, response),
                    Len(consistency_indicators)))

\* the maximum expected tokens for a response
max_expected_tokens == 2000

\* ModelBenchmarker._calculate_cost_efficiency; the cost per token is a whole
\* number of a small unit of money
_calculate_cost_efficiency(token_count, cost_per_token) ==
    LET max_expected_cost == max_expected_tokens * cost_per_token
        actual_cost == token_count * cost_per_token
    IN  IF max_expected_cost = 0 THEN ZeroDivisionError
        ELSE Fraction(max_expected_cost - actual_cost, max_expected_cost)

ImpactCategories == {"environmental", "social", "economic", "technological",
                     "political", "cultural"}

\* LongTermImpactAnalyzer._initialize_impact_indicators
impact_indicators == [category \in ImpactCategories |->
    CASE category = "environmental" -> <<
          <<"c", "a", "r", "b", "o", "n", " ", "e", "m", "i", "s", "s", "i",
            "o", "n", "s">>,
          <<"b", "i", "o", "d", "i", "v", "e", "r", "s", "i", "t", "y">>,
          <<"r", "e", "s", "o", "u", "r", "c", "e", " ", "d", "e", "p", "l",
            "e", "t", "i", "o", "n">>,
          <<"p", "o", "l", "l", "u", "t", "i", "o", "n">>,
          <<"c", "l", "i", "m", "a", "t", "e", " ", "c", "h", "a", "n", "g",
            "e">>,
          <<"e", "c", "o", "s", "y", "s", "t", "e", "m", " ", "h", "e", "a",
            "l", "t", "h">>
        >>
      [] category = "social" -> <<
          <<"c", "o", "m", "m", "u", "n", "i", "t", "y", " ", "w", "e", "l",
            "l", "-", "b", "e", "i", "n", "g">>,
          <<"s", "o", "c", "i", "a", "l", " ", "e", "q", "u", "i", "t", "y">>,
          <<"p", "u", "b", "l", "i", "c", " ", "h", "e", "a", "l", "t", "h">>,
          <<"e", "d", "u", "c", "a", "t", "i", "o", "n">>,
          <<"c", "u", "l", "t", "u", "r", "a", "l", " ", "p", "r", "e", "s",
            "e", "r", "v", "a", "t", "i", "o", "n">>,
          <<"s", "o", "c", "i", "a", "l", " ", "c", "o", "h", "e", "s", "i",
            "o", "n">>
        >>
      [] category = "economic" -> <<
          <<"e", "c", "o", "n", "o", "m", "i", "c", " ", "g", "r", "o", "w",
            "t", "h">>,
          <<"j", "o", "b", " ", "c", "r", "e", "a", "t", "i", "o", "n">>,
          <<"m", "a", "r", "k", "e", "t", " ", "s", "t", "a", "b", "i", "l",
            "i", "t", "y">>,
          <<"r", "e", "s", "o", "u", "r", "c", "e", " ", "e", "f", "f", "i",
            "c", "i", "e", "n", "c", "y">>,
          <<"i", "n", "n", "o", "v", "a", "t", "i", "o", "n">>,
          <<"c", "o", "m", "p", "e", "t", "i", "t", "i", "v", "e", "n", "e",
            "s", "s">>
        >>
      [] category = "technological" -> <<
          <<"t", "e", "c", "h", "n", "o", "l", "o", "g", "i", "c", "a", "l",
            " ", "a", "d", "v", "a", "n", "c", "e", "m", "e", "n", "t">>,
          <<"d", "i", "g", "i", "t", "a", "l", " ", "d", "i", "v", "i", "d",
            "e">>,
          <<"i", "n", "f", "r", "a", "s", "t", "r", "u", "c", "t", "u", "r",
            "e", " ", "d", "e", "v", "e", "l", "o", "p", "m", "e", "n", "t">>,
          <<"i", "n", "n", "o", "v", "a", "t", "i", "o", "n", " ", "c", "a",
            "p", "a", "c", "i", "t", "y">>,
          <<"t", "e", "c", "h", "n", "o", "l", "o", "g", "i", "c", "a", "l",
            " ", "d", "e", "p", "e", "n", "d", "e", "n", "c", "y">>,
          <<"c", "y", "b", "e", "r", "s", "e", "c", "u", "r", "i", "t", "y">>
        >>
      [] category = "political" -> <<
          <<"p", "o", "l", "i", "c", "y", " ", "s", "t", "a", "b", "i", "l",
            "i", "t", "y">>,
          <<"g", "o", "v", "e", "r", "n", "a", "n", "c", "e", " ", "e", "f",
            "f", "e", "c", "t", "i", "v", "e", "n", "e", "s", "s">>,
          <<"i", "n", "t", "e", "r", "n", "a", "t", "i", "o", "n", "a", "l",
            " ", "r", "e", "l", "a", "t", "i", "o", "n", "s">>,
          <<"r", "e", "g", "u", "l", "a", "t", "o", "r", "y", " ", "f", "r",
            "a", "m", "e", "w", "o", "r", "k">>,
          <<"p", "o", "l", "i", "t", "i", "c", "a", "l", " ", "s", "t", "a",
            "b", "i", "l", "i", "t", "y">>,
          <<"d", "e", "m", "o", "c", "r", "a", "t", "i", "c", " ", "p", "r",
            "o", "c", "e", "s", "s", "e", "s">>
        >>
      [] category = "cultural" -> <<
          <<"c", "u", "l", "t", "u", "r", "a", "l", " ", "p", "r", "e", "s",
            "e", "r", "v", "a", "t", "i", "o", "n">>,
          <<"h", "e", "r", "i", "t", "a", "g", "e", " ", "p", "r", "o", "t",
            "e", "c", "t", "i", "o", "n">>,
          <<"c", "u", "l", "t", "u", "r", "a", "l", " ", "d", "i", "v", "e",
            "r", "s", "i", "t", "y">>,
          <<"s", "o", "c", "i", "a", "l", " ", "v", "a", "l", "u", "e", "s">>,
          <<"t", "r", "a", "d", "i", "t", "i", "o", "n", "s">>,
          <<"i", "d", "e", "n", "t", "i", "t", "y">>
        >>]

\* LongTermImpactAnalyzer._calculate_category_score: an indicator matches
\* when any of its words occurs in the decision
_calculate_category_score(decision, category) ==
    LET indicators == impact_indicators[category]
        decision_lower == lower(decision)
        matches == Cardinality({i \in DOMAIN indicators :
                      \E term \in Range(split(lower(indicators[i]))) :
                          Contains(decision_lower, term)})
    IN  MinOne(Fraction(matches, Len(indicators)))

\* the terms of _calculate_resource_efficiency
efficiency_terms == <<
    <<"e", "f", "f", "i", "c", "i", "e", "n", "t">>,
    <<"s", "u", "s", "t", "a", "i", "n", "a", "b", "l", "e">>,
    <<"r", "e", "n", "e", "w", "a", "b", "l", "e">>,
    <<"r", "e", "c", "y", "c", "l", "e", "d">>,
    <<"c", "o", "n", "s", "e", "r", "v", "a", "t", "i", "o", "n">>,
    <<"o", "p", "t", "i", "m", "i", "z", "a", "t", "i", "o", "n">>,
    <<"r", "e", "d", "u", "c", "t", "i", "o", "n">>,
    <<"m", "i", "n", "i", "m", "i", "z", "a", "t", "i", "o", "n">>
  >>

\* LongTermImpactAnalyzer._calculate_resource_efficiency
_calculate_resource_efficiency(decision) ==
    MinOne(Fraction(TermsFound(efficiency_terms, decision), Len(efficiency_terms)))

\* the terms of _calculate_resilience_score
resilience_terms == <<
    <<"r", "e", "s", "i", "l", "i", "e", "n", "t">>,
    <<"a", "d", "a", "p", "t", "i", "v", "e">>,
    <<"f", "l", "e", "x", "i", "b", "l", "e">>,
    <<"r", "o", "b", "u", "s", "t">>,
    <<"s", "u", "s", "t", "a", "i", "n", "a", "b", "l", "e">>,
    <<"d", "u", "r", "a", "b", "l", "e">>,
    <<"r", "e", "l", "i", "a", "b", "l", "e">>,
    <<"s", "t", "a", "b", "l", "e">>
  >>

\* LongTermImpactAnalyzer._calculate_resilience_score
_calculate_resilience_score(decision) ==
    MinOne(Fraction(TermsFound(resilience_terms, decision), Len(resilience_terms)))

\* the terms of _calculate_adaptation_capacity
adaptation_terms == <<
    <<"a", "d", "a", "p", "t">>,
    <<"a", "d", "j", "u", "s", "t">>,
    <<"m", "o", "d", "i", "f", "y">>,
    <<"e", "v", "o", "l", "v", "e">>,
    <<"t", "r", "a", "n", "s", "f", "o", "r", "m">>,
    <<"i", "n", "n", "o", "v", "a", "t", "e">>,
    <<"l", "e", "a", "r", "n">>,
    <<"i", "m", "p", "r", "o", "v", "e">>
  >>

\* LongTermImpactAnalyzer._calculate_adaptation_capacity
_calculate_adaptation_capacity(decision) ==
    MinOne(Fraction(TermsFound(adaptation_terms, decision), Len(adaptation_terms)))

\* the texts scored: up to MaxFragments fragments, one after the other

ScorerFragments == {
    <<"s", "h", "o", "u", "l", "d">>,
    <<"M", "u", "s", "t">>,
    <<"e", "t", "h", "i", "c", "a", "l">>,
    <<"G", "e", "n", "e", "r", "a", "l", " ", "W", "e", "l", "f", "a", "r",
      "e">>,
    <<"s", "u", "s", "t", "a", "i", "n", "a", "b", "l", "e">>,
    <<"a", "d", "a", "p", "t">>,
    <<"c", "a", "r", "b", "o", "n">>,
    <<" ">>,
    <<"x">>
  }

RECURSIVE TextsOfFragments(_)
TextsOfFragments(n) ==
    IF n = 0 THEN {<<>>}
    ELSE LET shorter == TextsOfFragments(n - 1)
         IN  shorter \cup {t \o f : t \in shorter, f \in ScorerFragments}

ScorerTexts == TextsOfFragments(MaxFragments)
\* token counts around the maximum expected, costs per token from free upwards
TokenCounts == {0, 1000, max_expected_tokens, max_expected_tokens + 1, 3000}
TokenCosts == {0, 1, 2}
ScorerInputs ==
    {[kind |-> "text", text |-> t, token_count |-> 0, cost_per_token |-> 0] :
        t \in ScorerTexts}
    \cup {[kind |-> "cost", text |-> <<>>, token_count |-> n, cost_per_token |-> c] :
        n \in TokenCounts, c \in TokenCosts}

VARIABLES
    scoreInput,     \* the argument of the scorer
    scorer,         \* the scorer applied, "none" before
    score           \* what it returned or raised

scorerVars == <<scoreInput, scorer, score>>

NoScoreInput == [kind |-> "none", text |-> <<>>, token_count |-> 0, cost_per_token |-> 0]
NoScore == [raised |-> FALSE, num |-> 0, den |-> 1]

ScorerIdle ==
    /\ scoreInput = NoScoreInput
    /\ scorer = "none"
    /\ score = NoScore

ScorerInit ==
    /\ scoreInput \in ScorerInputs
    /\ scorer = "none"
    /\ score = NoScore

\* a scorer is applied to the text
Scored(name, value) ==
    /\ scorer = "none"
    /\ scorer' = name
    /\ score' = value
    /\ UNCHANGED scoreInput

CalculateConstitutionalCoverage ==
    /\ scoreInput.kind = "text"
    /\ Scored("constitutional_coverage",
              _calculate_constitutional_coverage(scoreInput.text))

CalculateRecommendationClarity ==
    /\ scoreInput.kind = "text"
    /\ Scored("recommendation_clarity",
              _calculate_recommendation_clarity(scoreInput.text))

CalculateEthicalConsistency ==
    /\ scoreInput.kind = "text"
    /\ Scored("ethical_consistency", _calculate_ethical_consistency(scoreInput.text))

CalculateCostEfficiency ==
    /\ scoreInput.kind = "cost"
    /\ Scored("cost_efficiency",
              _calculate_cost_efficiency(scoreInput.token_count,
                                         scoreInput.cost_per_token))

CalculateCategoryScore ==
    /\ scoreInput.kind = "text"
    /\ \E category \in ImpactCategories :
          Scored("category_score", _calculate_category_score(scoreInput.text, category))

CalculateResourceEfficiency ==
    /\ scoreInput.kind = "text"
    /\ Scored("resource_efficiency", _calculate_resource_efficiency(scoreInput.text))

CalculateResilienceScore ==
    /\ scoreInput.kind = "text"
    /\ Scored("resilience_score", _calculate_resilience_score(scoreInput.text))

CalculateAdaptationCapacity ==
    /\ scoreInput.kind = "text"
    /\ Scored("adaptation_capacity", _calculate_adaptation_capacity(scoreInput.text))

(***************************************************************************)
(* The prompt functions applied to arguments of their own.  The characters *)
(* of the arguments do not occur in the templates' fixed text.             *)
(***************************************************************************)
PromptTexts == {<<>>, <<"X">>, <<"Q", "?">>, <<"K", "\n", "\n", "Z">>}
PromptItems == {<<"X">>, <<"Z">>, <<"K", " ", "Q">>}

RECURSIVE ItemLists(_)
ItemLists(n) ==
    IF n = 0 THEN {<<>>}
    ELSE LET shorter == ItemLists(n - 1)
         IN  shorter \cup {Append(l, i) : l \in shorter, i \in PromptItems}

PromptArgs ==
    [dilemma : PromptTexts, principles : ItemLists(MaxItems),
     reasoning : PromptTexts, recommendations : ItemLists(MaxItems)]

VARIABLES
    promptArgs,     \* the arguments: [dilemma, principles, reasoning, recommendations]
    promptType,     \* the PromptType asked for, "none" before
    prompt          \* the prompt returned

promptVars == <<promptArgs, promptType, prompt>>

NoPromptArgs == [dilemma |-> <<>>, principles |-> <<>>, reasoning |-> <<>>,
                 recommendations |-> <<>>]

PromptIdle ==
    /\ promptArgs = NoPromptArgs
    /\ promptType = "none"
    /\ prompt = <<>>

PromptInit ==
    /\ promptArgs \in PromptArgs
    /\ promptType = "none"
    /\ prompt = <<>>

Prompted(type, text) ==
    /\ promptType = "none"
    /\ promptType' = type
    /\ prompt' = text
    /\ UNCHANGED promptArgs

GetPrincipleIdentificationPrompt ==
    Prompted("principle_identification",
             get_principle_identification_prompt(promptArgs.dilemma))

GetReasoningPrompt ==
    Prompted("reasoning_guidance",
             get_reasoning_prompt(promptArgs.dilemma, promptArgs.principles))

GetRecommendationPrompt ==
    Prompted("recommendation_guidance",
             get_recommendation_prompt(promptArgs.reasoning))

GetConfidencePrompt ==
    Prompted("confidence_assessment",
             get_confidence_prompt(promptArgs.dilemma, promptArgs.reasoning,
                                   promptArgs.recommendations))


(***************************************************************************)
(* long_term_impact.py: the risk levels of a decision.                     *)
(***************************************************************************)
\* RiskLevel, from the lowest to the highest
RiskLevels == <<"low", "moderate", "high", "critical">>

RiskCategories == {"environmental", "social", "economic", "technological",
                   "political"}

\* LongTermImpactAnalyzer._initialize_risk_factors
risk_factors == [category \in RiskCategories |->
    CASE category = "environmental" -> <<
          <<"c", "l", "i", "m", "a", "t", "e", " ", "c", "h", "a", "n", "g",
            "e">>,
          <<"r", "e", "s", "o", "u", "r", "c", "e", " ", "s", "c", "a", "r",
            "c", "i", "t", "y">>,
          <<"p", "o", "l", "l", "u", "t", "i", "o", "n">>,
          <<"b", "i", "o", "d", "i", "v", "e", "r", "s", "i", "t", "y", " ",
            "l", "o", "s", "s">>,
          <<"n", "a", "t", "u", "r", "a", "l", " ", "d", "i", "s", "a", "s",
            "t", "e", "r", "s">>
        >>
      [] category = "social" -> <<
          <<"i", "n", "e", "q", "u", "a", "l", "i", "t", "y">>,
          <<"s", "o", "c", "i", "a", "l", " ", "u", "n", "r", "e", "s", "t">>,
          <<"h", "e", "a", "l", "t", "h", " ", "c", "r", "i", "s", "e", "s">>,
          <<"d", "e", "m", "o", "g", "r", "a", "p", "h", "i", "c", " ", "c",
            "h", "a", "n", "g", "e", "s">>,
          <<"c", "u", "l", "t", "u", "r", "a", "l", " ", "c", "o", "n", "f",
            "l", "i", "c", "t", "s">>
        >>
      [] category = "economic" -> <<
          <<"m", "a", "r", "k", "e", "t", " ", "v", "o", "l", "a", "t", "i",
            "l", "i", "t", "y">>,
          <<"r", "e", "s", "o", "u", "r", "c", "e", " ", "d", "e", "p", "l",
            "e", "t", "i", "o", "n">>,
          <<"t", "e", "c", "h", "n", "o", "l", "o", "g", "i", "c", "a", "l",
            " ", "d", "i", "s", "r", "u", "p", "t", "i", "o", "n">>,
          <<"g", "l", "o", "b", "a", "l", " ", "c", "o", "m", "p", "e", "t",
            "i", "t", "i", "o", "n">>,
          <<"f", "i", "n", "a", "n", "c", "i", "a", "l", " ", "i", "n", "s",
            "t", "a", "b", "i", "l", "i", "t", "y">>
        >>
      [] category = "technological" -> <<
          <<"o", "b", "s", "o", "l", "e", "s", "c", "e", "n", "c", "e">>,
          <<"s", "e", "c", "u", "r", "i", "t", "y", " ", "t", "h", "r", "e",
            "a", "t", "s">>,
          <<"d", "e", "p", "e", "n", "d", "e", "n", "c", "y">>,
          <<"a", "c", "c", "e", "s", "s", " ", "i", "n", "e", "q", "u", "a",
            "l", "i", "t", "y">>,
          <<"e", "t", "h", "i", "c", "a", "l", " ", "c", "o", "n", "c", "e",
            "r", "n", "s">>
        >>
      [] category = "political" -> <<
          <<"p", "o", "l", "i", "c", "y", " ", "c", "h", "a", "n", "g", "e",
            "s">>,
          <<"r", "e", "g", "u", "l", "a", "t", "o", "r", "y", " ", "u", "n",
            "c", "e", "r", "t", "a", "i", "n", "t", "y">>,
          <<"i", "n", "t", "e", "r", "n", "a", "t", "i", "o", "n", "a", "l",
            " ", "c", "o", "n", "f", "l", "i", "c", "t", "s">>,
          <<"g", "o", "v", "e", "r", "n", "a", "n", "c", "e", " ", "c", "h",
            "a", "l", "l", "e", "n", "g", "e", "s">>,
          <<"p", "u", "b", "l", "i", "c", " ", "o", "p", "p", "o", "s", "i",
            "t", "i", "o", "n">>
        >>]

\* sum(1 for factor in factors if any(term in decision_lower
\*                                    for term in factor.lower().split()))
FactorsMatched(decision, factors) ==
    LET decision_lower == lower(decision)
    IN  Cardinality({i \in DOMAIN factors :
            \E term \in Range(split(lower(factors[i]))) :
                Contains(decision_lower, term)})

\* mutant: the thresholds are exclusive
_calculate_category_risk_exclusive(decision, factors) ==
    LET matches == FactorsMatched(decision, factors)
    IN  IF matches > 4 THEN "critical"
        ELSE IF matches > 3 THEN "high"
        ELSE IF matches > 2 THEN "moderate"
        ELSE "low"

\* LongTermImpactAnalyzer._calculate_category_risk
_calculate_category_risk(decision, factors) ==
    LET matches == FactorsMatched(decision, factors)
    IN  IF matches >= 4 THEN "critical"
        ELSE IF matches >= 3 THEN "high"
        ELSE IF matches >= 2 THEN "moderate"
        ELSE "low"

\* LongTermImpactAnalyzer._assess_risks: the dict of the categories' levels
_assess_risks(decision, context) ==
    [category \in RiskCategories |->
        _calculate_category_risk(decision, risk_factors[category])]

\* the decisions assessed: up to MaxFragments fragments, one after the other

RiskFragments == {
    <<"c", "l", "i", "m", "a", "t", "e">>,
    <<"s", "c", "a", "r", "c", "i", "t", "y", " ", "p", "o", "l", "l", "u",
      "t", "i", "o", "n">>,
    <<"l", "o", "s", "s", " ", "d", "i", "s", "a", "s", "t", "e", "r", "s">>,
    <<"C", "l", "i", "m", "a", "t", "e", " ", "S", "c", "a", "r", "c", "i",
      "t", "y", " ", "P", "O", "L", "L", "U", "T", "I", "O", "N">>,
    <<"u", "n", "r", "e", "s", "t", " ", "c", "h", "a", "n", "g", "e", "s">>,
    <<" ">>
  }

RECURSIVE TextsOfRiskFragments(_)
TextsOfRiskFragments(n) ==
    IF n = 0 THEN {<<>>}
    ELSE LET shorter == TextsOfRiskFragments(n - 1)
         IN  shorter \cup {t \o f : t \in shorter, f \in RiskFragments}

RiskDecisions == TextsOfRiskFragments(MaxFragments)

VARIABLES
    riskDecision,   \* the decision text
    riskOp,         \* the method applied: [name, category], name "none" before
    riskResult      \* the level, or the dict of levels, it returned

riskVars == <<riskDecision, riskOp, riskResult>>

NoRiskOp == [name |-> "none", category |-> ""]

RiskIdle ==
    /\ riskDecision = <<>>
    /\ riskOp = NoRiskOp
    /\ riskResult = NoneValue

RiskInit ==
    /\ riskDecision \in RiskDecisions
    /\ riskOp = NoRiskOp
    /\ riskResult = NoneValue

CalculateCategoryRisk ==
    /\ riskOp = NoRiskOp
    /\ \E category \in RiskCategories :
          /\ riskOp' = [name |-> "_calculate_category_risk", category |-> category]
          /\ riskResult' =
                _calculate_category_risk(riskDecision, risk_factors[category])
    /\ UNCHANGED riskDecision

AssessRisks ==
    /\ riskOp = NoRiskOp
    /\ riskOp' = [name |-> "_assess_risks", category |-> ""]
    /\ riskResult' = _assess_risks(riskDecision, EmptyList)
    /\ UNCHANGED riskDecision


(***************************************************************************)
(* chainer.py: format_analysis called on one EthicalAnalysis, once and     *)
(* again, by the chainer that made it.                                     *)
(***************************************************************************)
MaxFormatCalls == 2

FormatDilemmas == {<<"X">>, <<" ", "X", " ", "Z", "\n">>}
FormatItemLists == {<<>>, <<<<"Q">>, <<"K">>>>}
FormatConfidences == {DEFAULT_CONFIDENCE, 85}

\* the values of an Optional field of EthicalAnalysis: None or a value of
\* its type; a dict and a list may be empty
OptionalResults(field) ==
    CASE field = "benchmark_results" -> {NoneValue, Value("BenchmarkMetrics", <<>>)}
      [] field = "ethical_alignment" ->
            {NoneValue, Value("dict", <<>>), Value("dict", <<"score">>)}
      [] field = "stakeholder_impacts" ->
            {NoneValue, Value("list", <<>>), Value("list", <<"impact">>)}
      [] field = "long_term_impact" -> {NoneValue, Value("LongTermImpact", <<>>)}
      [] field = "ai_explanation" -> {NoneValue, Value("AIExplanation", <<>>)}

\* the chainers with every optional part built
FormatChainers ==
    {NewChainer("gpt-4", TRUE, NoneValue, TRUE, client) : client \in ModelClients}

EthicalAnalyses ==
    [type : {"EthicalAnalysis"},
     val : {<<>>},
     dilemma : FormatDilemmas,
     context : {EmptyList, Value("list", <<"context">>)},
     ethical_principles : FormatItemLists,
     analysis : {<<"K">>},
     recommendations : FormatItemLists,
     confidence_score : FormatConfidences,
     model_used : {"gpt-4"},
     benchmark_results : OptionalResults("benchmark_results"),
     ethical_alignment : OptionalResults("ethical_alignment"),
     stakeholder_impacts : OptionalResults("stakeholder_impacts"),
     long_term_impact : OptionalResults("long_term_impact"),
     ai_explanation : OptionalResults("ai_explanation")]

VARIABLES fmtSelf, fmtAnalysis, formatCalls

formatVars == <<fmtSelf, fmtAnalysis, formatCalls>>

FormatIdle ==
    /\ fmtSelf = NoChainer
    /\ fmtAnalysis = NoneValue
    /\ formatCalls = <<>>

FormatInit ==
    /\ fmtSelf \in FormatChainers
    /\ fmtAnalysis \in EthicalAnalyses
    /\ formatCalls = <<>>

\* a call of format_analysis: what it was given and what it returned
FormatCall(self, a, report) == [self |-> self, analysis |-> a, report |-> report]

\* mutant: the lists are drained into the report
FormatAnalysis_draining ==
    /\ Len(formatCalls) < MaxFormatCalls
    /\ formatCalls' =
          Append(formatCalls, FormatCall(fmtSelf, fmtAnalysis, format_analysis(fmtAnalysis)))
    /\ fmtAnalysis' = [fmtAnalysis EXCEPT !.ethical_principles = <<>>,
                                          !.recommendations = <<>>]
    /\ UNCHANGED fmtSelf

\* chainer.format_analysis(analysis): the report is built in a local and
\* returned; nothing of self or of analysis is assigned
FormatAnalysis ==
    /\ Len(formatCalls) < MaxFormatCalls
    /\ formatCalls' =
          Append(formatCalls, FormatCall(fmtSelf, fmtAnalysis, format_analysis(fmtAnalysis)))
    /\ UNCHANGED <<fmtSelf, fmtAnalysis>>

(***************************************************************************)
(* models.py: ModelFactory.  The registry is the class attribute _models,  *)
(* a dict from provider name to model class; a dict a caller holds is      *)
(* either the registry itself or an object of its own.                     *)
(***************************************************************************)
MaxRegistrations == 2

Providers == {"test-provider", "openai"}
ModelClasses == {"TestModel", "GPT4Model", "CustomModel"}

\* ModelConfig(name, provider, version): the provider may be one nobody
\* registers
ModelConfigs ==
    [name : {"test-model"},
     provider : Providers \cup {"unknown-provider"},
     version : {"1.0"}]

EmptyDict == [n \in {} |-> "TestModel"]

\* d[key] = value
SetItem(d, key, value) ==
    [n \in DOMAIN d \cup {key} |-> IF n = key THEN value ELSE d[n]]

\* del d[key]
DelItem(d, key) == [n \in DOMAIN d \ {key} |-> d[n]]

\* mutant: a provider keeps the class it was first registered with
register_model_keep_first(models, name, model_class) ==
    IF name \in DOMAIN models THEN models ELSE SetItem(models, name, model_class)

\* cls._models[name] = model_class
register_model(models, name, model_class) == SetItem(models, name, model_class)

\* BaseModel.__init__: self.config = config; _validate_config finds every
\* required field on a ModelConfig
BaseModelInit(model_class, config) ==
    [raised |-> "", class |-> model_class, config |-> config]

create_model(models, config) ==
    IF config.provider \notin DOMAIN models
    THEN [raised |-> "ModelError", class |-> "", config |-> NoneValue]
    ELSE BaseModelInit(models[config.provider], config)

\* mutant: the registry itself is handed out
get_available_models_same_dict(models) == [ref |-> "registry", items |-> models]

\* cls._models.copy()
get_available_models(models) == [ref |-> "copy", items |-> models]

VARIABLES _models, registrations, created, available

factoryVars == <<_models, registrations, created, available>>

NoDict == [ref |-> "none", items |-> EmptyDict]

FactoryInit ==
    /\ _models = EmptyDict
    /\ registrations = <<>>
    /\ created = NoneValue
    /\ available = NoDict

\* ModelFactory.register_model(name, model_class)
RegisterModel ==
    /\ Len(registrations) < MaxRegistrations
    /\ \E name \in Providers, model_class \in ModelClasses :
          /\ _models' = register_model(_models, name, model_class)
          /\ registrations' =
                Append(registrations, [name |-> name, model_class |-> model_class])
          /\ available' =
                IF available.ref = "registry"
                THEN [available EXCEPT !.items = _models'] ELSE available
    /\ UNCHANGED created

\* a call of create_model: the config given, the registrations made before
\* it, and what came back
CreateCall(config, after, outcome) ==
    [type |-> "call", given |-> config, after |-> after, outcome |-> outcome]

\* ModelFactory.create_model(config)
CreateModel ==
    /\ \E config \in ModelConfigs :
          created' = CreateCall(config, Len(registrations), create_model(_models, config))
    /\ UNCHANGED <<_models, registrations, available>>

\* available = ModelFactory.get_available_models()
GetAvailableModels ==
    /\ available' = get_available_models(_models)
    /\ UNCHANGED <<_models, registrations, created>>

\* the caller changes the dict it was given: available[name] = model_class,
\* or del available[name]
ChangeAvailable ==
    /\ available.ref # "none"
    /\ \E name \in Providers :
          \/ \E model_class \in ModelClasses :
                available' = [available EXCEPT !.items = SetItem(@, name, model_class)]
          \/ /\ name \in DOMAIN available.items
             /\ available' = [available EXCEPT !.items = DelItem(@, name)]
    /\ _models' = IF available.ref = "registry" THEN available'.items ELSE _models
    /\ UNCHANGED <<registrations, created>>

(***************************************************************************)
(* benchmark.py: ModelBenchmarker.benchmark_model and run_benchmark.  What *)
(* the model client answers (or that it fails) and what a token costs are  *)
(* inputs; times are whole seconds.                                        *)
(***************************************************************************)
MaxBenchModels == 2
MaxBenchDilemmas == 2

RECURSIVE GCD(_, _)
GCD(a, b) == IF b = 0 THEN a ELSE GCD(b, a % b)

Abs(n) == IF n < 0 THEN 0 - n ELSE n

\* the fraction in lowest terms
Reduced(x) ==
    LET g == GCD(Abs(x.num), x.den)
    IN  IF g = 0 THEN x ELSE Fraction(x.num \div g, x.den \div g)

\* a + b
AddFractions(a, b) == Reduced(Fraction(a.num * b.den + b.num * a.den, a.den * b.den))

\* a * (tenths / 10)
Weighted(a, tenths) == Reduced(Fraction(a.num * tenths, a.den * 10))

\* ModelBenchmarker.METRIC_WEIGHTS, in tenths
METRIC_WEIGHTS ==
    [response_time |-> 1, constitutional_coverage |-> 3, recommendation_clarity |-> 3,
     ethical_consistency |-> 2, cost_efficiency |-> 1]

\* ModelBenchmarker._calculate_overall_score: the division inside
\* _calculate_cost_efficiency can raise
_calculate_overall_score(metrics) ==
    LET cost_efficiency ==
            _calculate_cost_efficiency(metrics.token_count, metrics.cost_per_token)
        response_time == Fraction(30 - metrics.response_time, 30)
    IN  IF cost_efficiency.raised THEN ZeroDivisionError
        ELSE AddFractions(
                 AddFractions(
                     AddFractions(
                         AddFractions(
                             Weighted(response_time, METRIC_WEIGHTS.response_time),
                             Weighted(metrics.constitutional_coverage,
                                      METRIC_WEIGHTS.constitutional_coverage)),
                         Weighted(metrics.recommendation_clarity,
                                  METRIC_WEIGHTS.recommendation_clarity)),
                     Weighted(metrics.ethical_consistency,
                              METRIC_WEIGHTS.ethical_consistency)),
                 Weighted(cost_efficiency, METRIC_WEIGHTS.cost_efficiency))

\* what creating the model and asking it can come to: an exception, or a
\* response with its token count, the time it took and the cost of a token
ResponseContents == {<<>>, <<"s", "h", "o", "u", "l", "d">>}

BenchmarkReplies ==
    {[raised |-> TRUE, content |-> <<>>, total_tokens |-> 0, response_time |-> 0,
      cost_per_token |-> 0]}
    \cup [raised : {FALSE},
          content : ResponseContents \ {<<>>},
          total_tokens : {100},
          response_time : {1},
          cost_per_token : {0, 2}]

ErrorBenchmarkingModel(model_name) == <<"Error benchmarking model ", model_name>>
ErrorInBenchmark(model_name) == <<"Error in benchmark for ", model_name>>

\* the three scores benchmark_model computes from a response text
ResponseScores ==
    [content \in ResponseContents |->
        [constitutional_coverage |-> _calculate_constitutional_coverage(content),
         recommendation_clarity |-> _calculate_recommendation_clarity(content),
         ethical_consistency |-> _calculate_ethical_consistency(content)]]

\* ModelBenchmarker.benchmark_model: the metrics, or the exception logged
\* and raised again
benchmark_model(model_name, dilemma, reply) ==
    IF reply.raised
    THEN [raised |-> TRUE, logged |-> <<ErrorBenchmarkingModel(model_name)>>,
          metrics |-> NoneValue]
    ELSE [raised |-> FALSE, logged |-> <<>>,
          metrics |->
              [model_name |-> model_name,
               response_time |-> reply.response_time,
               token_count |-> reply.total_tokens,
               constitutional_coverage |->
                   ResponseScores[reply.content].constitutional_coverage,
               recommendation_clarity |->
                   ResponseScores[reply.content].recommendation_clarity,
               ethical_consistency |-> ResponseScores[reply.content].ethical_consistency,
               cost_per_token |-> reply.cost_per_token,
               total_cost |-> reply.total_tokens * reply.cost_per_token]]

\* the row run_benchmark appends for a pair
BenchmarkRow(model_name, dilemma, metrics, overall_score) ==
    [model |-> model_name, dilemma |-> dilemma,
     response_time |-> metrics.response_time,
     token_count |-> metrics.token_count,
     constitutional_coverage |-> metrics.constitutional_coverage,
     recommendation_clarity |-> metrics.recommendation_clarity,
     ethical_consistency |-> metrics.ethical_consistency,
     cost_per_token |-> metrics.cost_per_token,
     total_cost |-> metrics.total_cost,
     overall_score |-> overall_score]

BenchModelNames == {"test-model", "gpt-4"}
BenchDilemmaTexts == {<<"X">>, <<"Z">>}

SeqsUpTo(S, lo, hi) == UNION {[1..n -> S] : n \in lo..hi}

VARIABLES models, benchDilemmas, output_file, benchPc, bmi, bdi, results, benchLog,
          visits, table, savedTable, direct

benchVars == <<models, benchDilemmas, output_file, benchPc, bmi, bdi, results,
               benchLog, visits, table, savedTable, direct>>

BenchIdle ==
    /\ models = <<>>
    /\ benchDilemmas = <<>>
    /\ output_file = NoneValue
    /\ benchPc = "idle"
    /\ bmi = 1
    /\ bdi = 1
    /\ results = <<>>
    /\ benchLog = <<>>
    /\ visits = <<>>
    /\ table = NoneValue
    /\ savedTable = NoneValue
    /\ direct = NoneValue

\* a benchmarker with its models, and run_benchmark(dilemmas, output_file)
\* entered: results = []
BenchInit ==
    /\ models \in SeqsUpTo(BenchModelNames, 1, MaxBenchModels)
    /\ benchDilemmas \in SeqsUpTo(BenchDilemmaTexts, 0, MaxBenchDilemmas)
    /\ output_file \in {NoneValue, Str(<<"out.csv">>)}
    /\ benchPc = "loop"
    /\ bmi = 1
    /\ bdi = 1
    /\ results = <<>>
    /\ benchLog = <<>>
    /\ visits = <<>>
    /\ table = NoneValue
    /\ savedTable = NoneValue
    /\ direct = NoneValue

\* the two for loops have a pair to take
HasPair == bmi <= Len(models) /\ bdi <= Len(benchDilemmas)

\* the next dilemma of this model, or the first of the next model
AdvancePair ==
    IF bdi < Len(benchDilemmas)
    THEN bmi' = bmi /\ bdi' = bdi + 1
    ELSE bmi' = bmi + 1 /\ bdi' = 1

\* a pair taken by the loops and how its try block ended
Visit(m, d, benchmarked, row) ==
    [mi |-> m, di |-> d, benchmarked |-> benchmarked, row |-> row]

\* one pass of the inner loop of run_benchmark: the try block and its except
BenchmarkPair(reply) ==
    /\ benchPc = "loop"
    /\ HasPair
    /\ LET out == benchmark_model(models[bmi], benchDilemmas[bdi], reply)
           overall_score ==
               IF out.raised THEN ZeroDivisionError
               ELSE _calculate_overall_score(out.metrics)
           row == ~out.raised /\ ~overall_score.raised
       IN  /\ results' =
                 IF row
                 THEN Append(results, BenchmarkRow(models[bmi], benchDilemmas[bdi],
                                                   out.metrics, overall_score))
                 ELSE results
           /\ benchLog' =
                 IF row THEN benchLog
                 ELSE benchLog \o out.logged \o <<ErrorInBenchmark(models[bmi])>>
           /\ visits' = Append(visits, Visit(bmi, bdi, ~out.raised, row))
           /\ AdvancePair
    /\ UNCHANGED <<models, benchDilemmas, output_file, benchPc, table, savedTable,
                   direct>>

\* the loops are over: the DataFrame of the results, saved when an output
\* file was named, and returned
ReturnTable ==
    /\ benchPc = "loop"
    /\ ~HasPair
    /\ table' = Value("DataFrame", results)
    /\ savedTable' = IF Truthy(output_file) THEN table' ELSE savedTable
    /\ benchPc' = "returned"
    /\ UNCHANGED <<models, benchDilemmas, output_file, bmi, bdi, results, benchLog,
                   visits, direct>>

\* benchmark_model called by a caller of its own, before the run: what the
\* caller gets
BenchmarkModelDirect(reply) ==
    /\ benchPc = "loop"
    /\ visits = <<>>
    /\ direct = NoneValue
    /\ LET out == benchmark_model(models[1], <<"X">>, reply)
       IN  /\ direct' = [type |-> "outcome", raised |-> out.raised,
                         failed |-> reply.raised]
           /\ benchLog' = benchLog \o out.logged
    /\ UNCHANGED <<models, benchDilemmas, output_file, benchPc, bmi, bdi, results,
                   visits, table, savedTable>>

(***************************************************************************)
(* stakeholder_analysis.py: StakeholderAnalyzer.  Power and vulnerability  *)
(* levels are in hundredths.                                               *)
(***************************************************************************)
\* list(ImpactSeverity), from the lowest to the highest
ImpactSeverity == <<"low", "medium", "high", "critical">>

StakeholderGroup(name, key_interests, typical_concerns, power_level,
                 vulnerability_level) ==
    [name |-> name, key_interests |-> key_interests,
     typical_concerns |-> typical_concerns, power_level |-> power_level,
     vulnerability_level |-> vulnerability_level]

\* the keys of STAKEHOLDER_GROUPS in the order of the dict
GroupKeys == <<"individuals", "businesses", "government", "vulnerable",
               "environment">>

\* StakeholderAnalyzer.STAKEHOLDER_GROUPS
STAKEHOLDER_GROUPS == [key \in Range(GroupKeys) |->
    CASE key = "individuals" -> StakeholderGroup("Individual Citizens",
        <<
          <<"p", "e", "r", "s", "o", "n", "a", "l", " ", "r", "i", "g", "h",
            "t", "s">>,
          <<"q", "u", "a", "l", "i", "t", "y", " ", "o", "f", " ", "l", "i",
            "f", "e">>,
          <<"a", "c", "c", "e", "s", "s", " ", "t", "o", " ", "r", "e", "s",
            "o", "u", "r", "c", "e", "s">>,
          <<"s", "a", "f", "e", "t", "y", " ", "a", "n", "d", " ", "s", "e",
            "c", "u", "r", "i", "t", "y">>
        >>,
        <<
          <<"p", "r", "i", "v", "a", "c", "y">>,
          <<"a", "u", "t", "o", "n", "o", "m", "y">>,
          <<"f", "a", "i", "r", " ", "t", "r", "e", "a", "t", "m", "e", "n",
            "t">>,
          <<"a", "c", "c", "e", "s", "s", " ", "t", "o", " ", "s", "e", "r",
            "v", "i", "c", "e", "s">>
        >>,
        30, 70)
      [] key = "businesses" -> StakeholderGroup("Businesses and Corporations",
        <<
          <<"p", "r", "o", "f", "i", "t", "a", "b", "i", "l", "i", "t", "y">>,
          <<"m", "a", "r", "k", "e", "t", " ", "s", "t", "a", "b", "i", "l",
            "i", "t", "y">>,
          <<"r", "e", "g", "u", "l", "a", "t", "o", "r", "y", " ", "e", "n",
            "v", "i", "r", "o", "n", "m", "e", "n", "t">>,
          <<"r", "e", "s", "o", "u", "r", "c", "e", " ", "a", "c", "c", "e",
            "s", "s">>
        >>,
        <<
          <<"c", "o", "m", "p", "l", "i", "a", "n", "c", "e", " ", "c", "o",
            "s", "t", "s">>,
          <<"m", "a", "r", "k", "e", "t", " ", "c", "o", "m", "p", "e", "t",
            "i", "t", "i", "o", "n">>,
          <<"r", "e", "s", "o", "u", "r", "c", "e", " ", "a", "v", "a", "i",
            "l", "a", "b", "i", "l", "i", "t", "y">>,
          <<"r", "e", "g", "u", "l", "a", "t", "o", "r", "y", " ", "b", "u",
            "r", "d", "e", "n">>
        >>,
        80, 40)
      [] key = "government" -> StakeholderGroup("Government Entities",
        <<
          <<"p", "u", "b", "l", "i", "c", " ", "w", "e", "l", "f", "a", "r",
            "e">>,
          <<"p", "o", "l", "i", "c", "y", " ", "i", "m", "p", "l", "e", "m",
            "e", "n", "t", "a", "t", "i", "o", "n">>,
          <<"r", "e", "s", "o", "u", "r", "c", "e", " ", "m", "a", "n", "a",
            "g", "e", "m", "e", "n", "t">>,
          <<"r", "e", "g", "u", "l", "a", "t", "o", "r", "y", " ", "c", "o",
            "n", "t", "r", "o", "l">>
        >>,
        <<
          <<"b", "u", "d", "g", "e", "t", " ", "c", "o", "n", "s", "t", "r",
            "a", "i", "n", "t", "s">>,
          <<"p", "u", "b", "l", "i", "c", " ", "o", "p", "i", "n", "i", "o",
            "n">>,
          <<"i", "m", "p", "l", "e", "m", "e", "n", "t", "a", "t", "i", "o",
            "n", " ", "c", "h", "a", "l", "l", "e", "n", "g", "e", "s">>,
          <<"l", "e", "g", "a", "l", " ", "c", "o", "m", "p", "l", "i", "a",
            "n", "c", "e">>
        >>,
        90, 20)
      [] key = "vulnerable" -> StakeholderGroup("Vulnerable Populations",
        <<
          <<"b", "a", "s", "i", "c", " ", "n", "e", "e", "d", "s">>,
          <<"p", "r", "o", "t", "e", "c", "t", "i", "o", "n">>,
          <<"a", "c", "c", "e", "s", "s", " ", "t", "o", " ", "s", "e", "r",
            "v", "i", "c", "e", "s">>,
          <<"s", "o", "c", "i", "a", "l", " ", "i", "n", "c", "l", "u", "s",
            "i", "o", "n">>
        >>,
        <<
          <<"d", "i", "s", "c", "r", "i", "m", "i", "n", "a", "t", "i", "o",
            "n">>,
          <<"a", "c", "c", "e", "s", "s", " ", "b", "a", "r", "r", "i", "e",
            "r", "s">>,
          <<"r", "e", "s", "o", "u", "r", "c", "e", " ", "s", "c", "a", "r",
            "c", "i", "t", "y">>,
          <<"s", "o", "c", "i", "a", "l", " ", "e", "x", "c", "l", "u", "s",
            "i", "o", "n">>
        >>,
        20, 90)
      [] key = "environment" -> StakeholderGroup("Environmental Stakeholders",
        <<
          <<"s", "u", "s", "t", "a", "i", "n", "a", "b", "i", "l", "i", "t",
            "y">>,
          <<"r", "e", "s", "o", "u", "r", "c", "e", " ", "c", "o", "n", "s",
            "e", "r", "v", "a", "t", "i", "o", "n">>,
          <<"b", "i", "o", "d", "i", "v", "e", "r", "s", "i", "t", "y">>,
          <<"c", "l", "i", "m", "a", "t", "e", " ", "s", "t", "a", "b", "i",
            "l", "i", "t", "y">>
        >>,
        <<
          <<"p", "o", "l", "l", "u", "t", "i", "o", "n">>,
          <<"r", "e", "s", "o", "u", "r", "c", "e", " ", "d", "e", "p", "l",
            "e", "t", "i", "o", "n">>,
          <<"h", "a", "b", "i", "t", "a", "t", " ", "l", "o", "s", "s">>,
          <<"c", "l", "i", "m", "a", "t", "e", " ", "c", "h", "a", "n", "g",
            "e">>
        >>,
        10, 80)]

\* the positive and the negative terms of _determine_impact_type
positive_terms == <<
    <<"b", "e", "n", "e", "f", "i", "t">>,
    <<"i", "m", "p", "r", "o", "v", "e">>,
    <<"e", "n", "h", "a", "n", "c", "e">>,
    <<"s", "u", "p", "p", "o", "r", "t">>,
    <<"p", "r", "o", "t", "e", "c", "t">>,
    <<"p", "r", "o", "m", "o", "t", "e">>,
    <<"f", "a", "c", "i", "l", "i", "t", "a", "t", "e">>,
    <<"e", "n", "a", "b", "l", "e">>,
    <<"s", "t", "r", "e", "n", "g", "t", "h", "e", "n">>,
    <<"e", "m", "p", "o", "w", "e", "r">>
  >>

negative_terms == <<
    <<"h", "a", "r", "m">>,
    <<"d", "a", "m", "a", "g", "e">>,
    <<"r", "e", "s", "t", "r", "i", "c", "t">>,
    <<"l", "i", "m", "i", "t">>,
    <<"b", "u", "r", "d", "e", "n">>,
    <<"c", "o", "s", "t">>,
    <<"r", "i", "s", "k">>,
    <<"t", "h", "r", "e", "a", "t">>,
    <<"v", "u", "l", "n", "e", "r", "a", "b", "l", "e">>,
    <<"e", "x", "p", "o", "s", "e">>
  >>

\* mutant: equal counts are always neutral
_determine_impact_type_no_mixed(decision, stakeholder_group) ==
    LET positive_count == TermsFound(positive_terms, decision)
        negative_count == TermsFound(negative_terms, decision)
    IN  IF positive_count > negative_count THEN "positive"
        ELSE IF negative_count > positive_count THEN "negative"
        ELSE "neutral"

\* StakeholderAnalyzer._determine_impact_type
_determine_impact_type(decision, stakeholder_group) ==
    LET positive_count == TermsFound(positive_terms, decision)
        negative_count == TermsFound(negative_terms, decision)
    IN  IF positive_count > negative_count THEN "positive"
        ELSE IF negative_count > positive_count THEN "negative"
        ELSE IF positive_count = negative_count /\ positive_count > 0 THEN "mixed"
        ELSE "neutral"

\* the severity terms of _determine_impact_severity; the dict is gone through
\* in the order critical, high, medium, low
SeverityOrder == <<"critical", "high", "medium", "low">>

severity_terms == [severity \in Range(SeverityOrder) |->
    CASE severity = "critical" -> <<
          <<"c", "r", "i", "t", "i", "c", "a", "l">>,
          <<"s", "e", "v", "e", "r", "e">>,
          <<"e", "x", "t", "r", "e", "m", "e">>,
          <<"u", "r", "g", "e", "n", "t">>,
          <<"i", "m", "m", "e", "d", "i", "a", "t", "e">>,
          <<"e", "x", "i", "s", "t", "e", "n", "t", "i", "a", "l">>,
          <<"f", "u", "n", "d", "a", "m", "e", "n", "t", "a", "l">>,
          <<"i", "r", "r", "e", "v", "e", "r", "s", "i", "b", "l", "e">>
        >>
      [] severity = "high" -> <<
          <<"s", "i", "g", "n", "i", "f", "i", "c", "a", "n", "t">>,
          <<"m", "a", "j", "o", "r">>,
          <<"s", "u", "b", "s", "t", "a", "n", "t", "i", "a", "l">>,
          <<"s", "e", "r", "i", "o", "u", "s">>,
          <<"c", "o", "n", "s", "i", "d", "e", "r", "a", "b", "l", "e">>,
          <<"i", "m", "p", "o", "r", "t", "a", "n", "t">>,
          <<"n", "o", "t", "a", "b", "l", "e">>
        >>
      [] severity = "medium" -> <<
          <<"m", "o", "d", "e", "r", "a", "t", "e">>,
          <<"m", "e", "d", "i", "u", "m">>,
          <<"s", "o", "m", "e">>,
          <<"p", "a", "r", "t", "i", "a", "l">>,
          <<"l", "i", "m", "i", "t", "e", "d">>,
          <<"c", "o", "n", "t", "r", "o", "l", "l", "e", "d">>,
          <<"m", "a", "n", "a", "g", "e", "d">>
        >>
      [] severity = "low" -> <<
          <<"m", "i", "n", "o", "r">>,
          <<"m", "i", "n", "i", "m", "a", "l">>,
          <<"s", "l", "i", "g", "h", "t">>,
          <<"n", "e", "g", "l", "i", "g", "i", "b", "l", "e">>,
          <<"i", "n", "s", "i", "g", "n", "i", "f", "i", "c", "a", "n", "t">>,
          <<"t", "r", "i", "v", "i", "a", "l">>,
          <<"m", "a", "r", "g", "i", "n", "a", "l">>
        >>]

\* list(ImpactSeverity).index(severity), counted from 0
SeverityIndex(severity) ==
    (CHOOSE i \in DOMAIN ImpactSeverity : ImpactSeverity[i] = severity) - 1

\* the for loop with its break: the first class, in the dict's order, with a
\* term in the decision; ImpactSeverity.LOW when there is none
RECURSIVE FirstSeverityMatched(_, _)
FirstSeverityMatched(decision_lower, k) ==
    IF k > Len(SeverityOrder) THEN "low"
    ELSE IF \E i \in DOMAIN severity_terms[SeverityOrder[k]] :
                Contains(decision_lower, severity_terms[SeverityOrder[k]][i])
         THEN SeverityOrder[k]
         ELSE FirstSeverityMatched(decision_lower, k + 1)

\* the level of a severity in hundredths
SeverityLevelOf(final_severity) ==
    IF final_severity >= 75 THEN "critical"
    ELSE IF final_severity >= 50 THEN "high"
    ELSE IF final_severity >= 25 THEN "medium"
    ELSE "low"

MaxOf(a, b) == IF a >= b THEN a ELSE b

\* mutant: the index of the class without the one added
_determine_impact_severity_index(decision, stakeholder_group) ==
    LET base_severity == stakeholder_group.vulnerability_level
        max_severity == FirstSeverityMatched(lower(decision), 1)
        final_severity ==
            MaxOf(base_severity,
                  (SeverityIndex(max_severity) * 100) \div Len(ImpactSeverity))
    IN  SeverityLevelOf(final_severity)

\* StakeholderAnalyzer._determine_impact_severity
_determine_impact_severity(decision, stakeholder_group) ==
    LET base_severity == stakeholder_group.vulnerability_level
        max_severity == FirstSeverityMatched(lower(decision), 1)
        final_severity ==
            MaxOf(base_severity,
                  ((SeverityIndex(max_severity) + 1) * 100) \div Len(ImpactSeverity))
    IN  SeverityLevelOf(final_severity)

\* [term.lower() for term in key_interests] + [... in typical_concerns]
GroupTerms(group) ==
    [i \in 1..(Len(group.key_interests) + Len(group.typical_concerns)) |->
        IF i <= Len(group.key_interests) THEN lower(group.key_interests[i])
        ELSE lower(group.typical_concerns[i - Len(group.key_interests)])]

\* any(keyword in group_terms for keyword in context_keywords): a keyword is
\* one whitespace-separated word, and is looked up among the whole terms
GroupIsRelevant(context, group) ==
    \E keyword \in Range(split(lower(context))) :
        keyword \in Range(GroupTerms(group))

\* StakeholderAnalyzer.identify_stakeholders: the keys of the groups returned
RECURSIVE RelevantFrom(_, _)
RelevantFrom(context, k) ==
    IF k > Len(GroupKeys) THEN <<>>
    ELSE (IF GroupIsRelevant(context, STAKEHOLDER_GROUPS[GroupKeys[k]])
          THEN <<GroupKeys[k]>> ELSE <<>>) \o RelevantFrom(context, k + 1)

identify_stakeholders(context) == RelevantFrom(context, 1)

\* groups a caller builds, with vulnerabilities at and beside the thresholds
CustomGroups ==
    {StakeholderGroup("Custom", <<>>, <<>>, 50, v) : v \in {0, 25, 50, 75}}

PredefinedGroups == {STAKEHOLDER_GROUPS[key] : key \in Range(GroupKeys)}

StakeholderFragments == {
    <<"b", "e", "n", "e", "f", "i", "t", " ", "h", "a", "r", "m", " ">>,
    <<"h", "a", "r", "m", " ", "c", "o", "s", "t", "s", " ">>,
    <<"I", "m", "p", "r", "o", "v", "e", " ">>,
    <<"c", "r", "i", "t", "i", "c", "a", "l", " ", "i", "r", "r", "e", "v",
      "e", "r", "s", "i", "b", "l", "e", " ">>,
    <<"m", "i", "n", "o", "r", " ", "n", "e", "g", "l", "i", "g", "i", "b",
      "l", "e", " ">>,
    <<"S", "i", "g", "n", "i", "f", "i", "c", "a", "n", "t", " ">>,
    <<"c", "l", "i", "m", "a", "t", "e", " ", "c", "h", "a", "n", "g", "e",
      " ">>,
    <<"m", "a", "r", "k", "e", "t", " ", "c", "o", "m", "p", "e", "t", "i",
      "t", "i", "o", "n", " ">>,
    <<"p", "o", "l", "l", "u", "t", "i", "o", "n", " ">>
  }

RECURSIVE TextsOfStakeholderFragments(_)
TextsOfStakeholderFragments(n) ==
    IF n = 0 THEN {<<>>}
    ELSE LET shorter == TextsOfStakeholderFragments(n - 1)
         IN  shorter \cup {t \o f : t \in shorter, f \in StakeholderFragments}

StakeholderTexts == TextsOfStakeholderFragments(MaxFragments)

VARIABLES
    shText,     \* the decision or context text
    shOp,       \* the method applied, "none" before
    shGroup,    \* the group it was applied to
    shResult    \* what it returned

stakeholderVars == <<shText, shOp, shGroup, shResult>>

StakeholderIdle ==
    /\ shText = <<>>
    /\ shOp = "none"
    /\ shGroup = NoneValue
    /\ shResult = NoneValue

StakeholderInit ==
    /\ shText \in StakeholderTexts
    /\ shOp = "none"
    /\ shGroup = NoneValue
    /\ shResult = NoneValue

DetermineImpactType ==
    /\ shOp = "none"
    /\ \E group \in PredefinedGroups :
          /\ shGroup' = group
          /\ shResult' = _determine_impact_type(shText, group)
    /\ shOp' = "_determine_impact_type"
    /\ UNCHANGED shText

DetermineImpactSeverity ==
    /\ shOp = "none"
    /\ \E group \in PredefinedGroups \cup CustomGroups :
          /\ shGroup' = group
          /\ shResult' = _determine_impact_severity(shText, group)
    /\ shOp' = "_determine_impact_severity"
    /\ UNCHANGED shText

IdentifyStakeholders ==
    /\ shOp = "none"
    /\ shResult' = identify_stakeholders(shText)
    /\ shOp' = "identify_stakeholders"
    /\ UNCHANGED <<shText, shGroup>>

(***************************************************************************)
(* explainable_ai.py: ExplainableAI, and the chainer's                     *)
(* _generate_ai_explanation that calls it.  Scores are in hundredths.  The *)
(* object explained is a str or an object with some of the attributes the  *)
(* methods look for with hasattr.                                          *)
(***************************************************************************)
InspectedAttributes ==
    {"ethical_principles", "stakeholder_impacts", "long_term_impact", "confidence_score"}

\* an object with the attributes attrs
ObjectWith(attrs, confidence) ==
    [type |-> "object", val |-> <<>>, attrs |-> attrs,
     ethical_principles |-> <<"Q">>,
     stakeholder_impacts |-> <<[stakeholder |-> "Individual Citizens",
                                confidence_score |-> 70]>>,
     long_term_impact |-> [confidence_score |-> 60],
     confidence_score |-> confidence]

\* hasattr(analysis, name): a str has none of the inspected attributes
HasAttr(a, name) == a.type = "object" /\ name \in a.attrs

\* ExplainableAI._initialize_feature_weights
feature_weights ==
    [ethical_principles |-> 30, stakeholder_impacts |-> 20, long_term_effects |-> 20,
     context_relevance |-> 15, historical_precedents |-> 15]

FeatureImportance(feature, importance_score, confidence) ==
    [feature |-> feature, importance_score |-> importance_score,
     confidence |-> confidence]

\* ExplainableAI._analyze_feature_importance
_analyze_feature_importance(a) ==
    (IF HasAttr(a, "ethical_principles")
     THEN [i \in DOMAIN a.ethical_principles |->
              FeatureImportance(<<"Ethical Principle: ", a.ethical_principles[i]>>,
                                feature_weights.ethical_principles, 80)]
     ELSE <<>>)
    \o (IF HasAttr(a, "stakeholder_impacts")
        THEN [i \in DOMAIN a.stakeholder_impacts |->
                 FeatureImportance(
                     <<"Stakeholder Impact: ", a.stakeholder_impacts[i].stakeholder>>,
                     feature_weights.stakeholder_impacts,
                     a.stakeholder_impacts[i].confidence_score)]
        ELSE <<>>)
    \o (IF HasAttr(a, "long_term_impact")
        THEN <<FeatureImportance(<<"Long-term Impact Analysis">>,
                                 feature_weights.long_term_effects,
                                 a.long_term_impact.confidence_score)>>
        ELSE <<>>)

\* the lists a part of the analysis adds to, or nothing
IfAttr(a, name, items) == IF HasAttr(a, name) THEN items ELSE <<>>

\* mutant: the long-term step has no alternative
_analyze_decision_path_short(a) ==
    [steps |->
        IfAttr(a, "ethical_principles", <<"Identify ethical principles">>)
        \o IfAttr(a, "stakeholder_impacts", <<"Analyze stakeholder impacts">>)
        \o IfAttr(a, "long_term_impact", <<"Assess long-term impacts">>),
     reasoning |->
        IfAttr(a, "ethical_principles",
               <<"Analyzed the dilemma to identify relevant ethical principles">>)
        \o IfAttr(a, "stakeholder_impacts",
                  <<"Evaluated effects on different stakeholder groups">>)
        \o IfAttr(a, "long_term_impact", <<"Analyzed potential future consequences">>),
     alternatives |->
        IfAttr(a, "ethical_principles", <<"Consider alternative ethical frameworks">>)
        \o IfAttr(a, "stakeholder_impacts",
                  <<"Consider different stakeholder perspectives">>),
     confidence_scores |->
        IfAttr(a, "ethical_principles", <<90>>)
        \o IfAttr(a, "stakeholder_impacts", <<85>>)
        \o IfAttr(a, "long_term_impact", <<80>>)]

\* ExplainableAI._analyze_decision_path
_analyze_decision_path(a) ==
    [steps |->
        IfAttr(a, "ethical_principles", <<"Identify ethical principles">>)
        \o IfAttr(a, "stakeholder_impacts", <<"Analyze stakeholder impacts">>)
        \o IfAttr(a, "long_term_impact", <<"Assess long-term impacts">>),
     reasoning |->
        IfAttr(a, "ethical_principles",
               <<"Analyzed the dilemma to identify relevant ethical principles">>)
        \o IfAttr(a, "stakeholder_impacts",
                  <<"Evaluated effects on different stakeholder groups">>)
        \o IfAttr(a, "long_term_impact", <<"Analyzed potential future consequences">>),
     alternatives |->
        IfAttr(a, "ethical_principles", <<"Consider alternative ethical frameworks">>)
        \o IfAttr(a, "stakeholder_impacts",
                  <<"Consider different stakeholder perspectives">>)
        \o IfAttr(a, "long_term_impact", <<"Consider different future scenarios">>),
     confidence_scores |->
        IfAttr(a, "ethical_principles", <<90>>)
        \o IfAttr(a, "stakeholder_impacts", <<85>>)
        \o IfAttr(a, "long_term_impact", <<80>>)]

\* ExplainableAI._generate_counterfactuals
_generate_counterfactuals(a) ==
    IfAttr(a, "ethical_principles",
           <<[scenario |-> "Different ethical principles were applied",
              confidence |-> 70]>>)
    \o IfAttr(a, "stakeholder_impacts",
              <<[scenario |-> "Different stakeholder groups were considered",
                 confidence |-> 75]>>)

\* ExplainableAI._find_similar_cases: the placeholder
_find_similar_cases(a) ==
    <<[case_id |-> "CASE001", similarity_score |-> 85,
       outcome |-> "Similar recommendations were made"]>>

\* the factor each inspected attribute adds to the breakdown
FactorOf(name) ==
    CASE name = "confidence_score" -> "Overall Analysis"
      [] name = "ethical_principles" -> "Ethical Principles"
      [] name = "stakeholder_impacts" -> "Stakeholder Analysis"
      [] name = "long_term_impact" -> "Long-term Impact"

FactorKeys(a) == {FactorOf(name) : name \in {n \in InspectedAttributes : HasAttr(a, n)}}

\* the score and the explanation of a factor
FactorScore(a, factor) ==
    CASE factor = "Overall Analysis" -> a.confidence_score
      [] factor = "Ethical Principles" -> 90
      [] factor = "Stakeholder Analysis" -> 85
      [] factor = "Long-term Impact" -> 80

FactorReasoning(factor) ==
    CASE factor = "Overall Analysis" -> "Based on the complete analysis"
      [] factor = "Ethical Principles" -> "Clear application of ethical principles"
      [] factor = "Stakeholder Analysis" -> "Comprehensive stakeholder impact assessment"
      [] factor = "Long-term Impact" -> "Thorough future scenario analysis"

\* ExplainableAI._break_down_confidence
_break_down_confidence(a) ==
    [factors |-> [factor \in FactorKeys(a) |-> FactorScore(a, factor)],
     reasoning |-> [factor \in FactorKeys(a) |-> FactorReasoning(factor)],
     overall_confidence |->
        IF HasAttr(a, "confidence_score") THEN a.confidence_score ELSE 80]

\* ExplainableAI._explain_ethical_reasoning
_explain_ethical_reasoning(a) ==
    [principles_applied |-> IfAttr(a, "ethical_principles", a.ethical_principles),
     reasoning_steps |->
        IfAttr(a, "ethical_principles",
               <<"Identified relevant ethical principles",
                 "Applied principles to the dilemma">>)
        \o IfAttr(a, "stakeholder_impacts", <<"Evaluated stakeholder impacts">>)
        \o IfAttr(a, "long_term_impact", <<"Considered long-term consequences">>),
     tradeoffs |->
        IfAttr(a, "ethical_principles", <<"Balanced different ethical considerations">>)
        \o IfAttr(a, "stakeholder_impacts",
                  <<"Balanced different stakeholder interests">>)
        \o IfAttr(a, "long_term_impact",
                  <<"Balanced short-term and long-term effects">>),
     justification |->
        "The analysis followed a systematic approach to ethical reasoning"]

\* ExplainableAI.explain_analysis; now is what datetime.now() gives
explain_analysis(a, explanation_type, level, now) ==
    [feature_importance |-> _analyze_feature_importance(a),
     decision_path |-> _analyze_decision_path(a),
     counterfactuals |-> _generate_counterfactuals(a),
     similar_cases |-> _find_similar_cases(a),
     confidence_breakdown |-> _break_down_confidence(a),
     ethical_reasoning |-> _explain_ethical_reasoning(a),
     timestamp |-> now]

\* mutant: the explainer is given an object that carries the analysis
_generate_ai_explanation_of_object(dilemma, analysis_text, level, now) ==
    explain_analysis([ObjectWith({"ethical_principles"}, 50)
                         EXCEPT !.ethical_principles = analysis_text],
                     "feature_importance", level, now)

\* EthicalPromptChainer._generate_ai_explanation: the analysis text, a str,
\* is what the explainer is given
_generate_ai_explanation(dilemma, analysis_text, level, now) ==
    explain_analysis(Str(analysis_text), "feature_importance", level, now)

ExplanationLevels == {"basic", "detailed", "technical"}
Timestamps == {1, 2}
ExplainedConfidences == {0, 50, 100}

\* the objects explain_analysis and its helpers are applied to
ExplainedObjects ==
    {ObjectWith(attrs, confidence) :
        attrs \in SUBSET InspectedAttributes, confidence \in ExplainedConfidences}
    \cup {Str(<<"K">>)}

VARIABLES
    exAnalysis,   \* the object explained
    exOp,         \* the method applied and its other arguments
    exResult      \* what it returned

explainerVars == <<exAnalysis, exOp, exResult>>

NoExplainerOp == [name |-> "none", dilemma |-> <<>>, text |-> <<>>, level |-> ""]

ExplainerIdle ==
    /\ exAnalysis = NoneValue
    /\ exOp = NoExplainerOp
    /\ exResult = NoneValue

ExplainerInit ==
    /\ exAnalysis \in ExplainedObjects
    /\ exOp = NoExplainerOp
    /\ exResult = NoneValue

AnalyzeDecisionPath ==
    /\ exOp = NoExplainerOp
    /\ exOp' = [NoExplainerOp EXCEPT !.name = "_analyze_decision_path"]
    /\ exResult' = _analyze_decision_path(exAnalysis)
    /\ UNCHANGED exAnalysis

BreakDownConfidence ==
    /\ exOp = NoExplainerOp
    /\ exOp' = [NoExplainerOp EXCEPT !.name = "_break_down_confidence"]
    /\ exResult' = _break_down_confidence(exAnalysis)
    /\ UNCHANGED exAnalysis

\* the chainer's step 9 for a dilemma and the text of its analysis
GenerateAiExplanation ==
    /\ exOp = NoExplainerOp
    /\ \E dilemma \in {<<"X">>, <<"Z">>}, text \in {<<"K">>, <<"Q">>},
          level \in ExplanationLevels, now \in Timestamps :
          /\ exOp' = [name |-> "_generate_ai_explanation", dilemma |-> dilemma,
                      text |-> text, level |-> level]
          /\ exResult' = _generate_ai_explanation(dilemma, text, level, now)
    /\ UNCHANGED exAnalysis

(***************************************************************************)
(* prompts.py: EthicalPromptTemplates.identify_dilemma_context and         *)
(* generate_contextual_prompt.  A template is a sequence of fixed texts    *)
(* and placeholders, one token each.                                       *)
(***************************************************************************)
\* the keys of DILEMMA_CONTEXTS in the order of the dict
ContextOrder == <<"economic", "social", "environmental", "security", "technology">>

\* EthicalPromptTemplates.DILEMMA_CONTEXTS
DILEMMA_CONTEXTS == [context \in Range(ContextOrder) |->
    CASE context = "economic" -> <<
          <<"i", "n", "c", "o", "m", "e">>,
          <<"w", "e", "l", "f", "a", "r", "e">>,
          <<"t", "a", "x">>,
          <<"c", "o", "s", "t">>,
          <<"f", "u", "n", "d", "i", "n", "g">>,
          <<"b", "u", "d", "g", "e", "t">>,
          <<"e", "m", "p", "l", "o", "y", "m", "e", "n", "t">>
        >>
      [] context = "social" -> <<
          <<"r", "i", "g", "h", "t", "s">>,
          <<"e", "q", "u", "a", "l", "i", "t", "y">>,
          <<"a", "c", "c", "e", "s", "s">>,
          <<"h", "e", "a", "l", "t", "h", "c", "a", "r", "e">>,
          <<"e", "d", "u", "c", "a", "t", "i", "o", "n">>,
          <<"h", "o", "u", "s", "i", "n", "g">>
        >>
      [] context = "environmental" -> <<
          <<"c", "l", "i", "m", "a", "t", "e">>,
          <<"e", "m", "i", "s", "s", "i", "o", "n", "s">>,
          <<"p", "o", "l", "l", "u", "t", "i", "o", "n">>,
          <<"c", "o", "n", "s", "e", "r", "v", "a", "t", "i", "o", "n">>,
          <<"s", "u", "s", "t", "a", "i", "n", "a", "b", "i", "l", "i", "t",
            "y">>
        >>
      [] context = "security" -> <<
          <<"s", "a", "f", "e", "t", "y">>,
          <<"d", "e", "f", "e", "n", "s", "e">>,
          <<"c", "r", "i", "m", "e">>,
          <<"e", "n", "f", "o", "r", "c", "e", "m", "e", "n", "t">>,
          <<"p", "r", "o", "t", "e", "c", "t", "i", "o", "n">>
        >>
      [] context = "technology" -> <<
          <<"i", "n", "n", "o", "v", "a", "t", "i", "o", "n">>,
          <<"d", "i", "g", "i", "t", "a", "l">>,
          <<"c", "y", "b", "e", "r", "s", "e", "c", "u", "r", "i", "t", "y">>,
          <<"i", "n", "f", "r", "a", "s", "t", "r", "u", "c", "t", "u", "r",
            "e">>
        >>]

\* any(keyword in dilemma.lower() for keyword in keywords)
ContextMatches(dilemma, context) ==
    \E i \in DOMAIN DILEMMA_CONTEXTS[context] :
        Contains(lower(dilemma), DILEMMA_CONTEXTS[context][i])

RECURSIVE ContextsFrom(_, _)
ContextsFrom(dilemma, k) ==
    IF k > Len(ContextOrder) THEN <<>>
    ELSE (IF ContextMatches(dilemma, ContextOrder[k]) THEN <<ContextOrder[k]>>
          ELSE <<>>) \o ContextsFrom(dilemma, k + 1)

\* mutant: the list of the contexts found, empty or not
identify_dilemma_context_or_empty(dilemma) == ContextsFrom(dilemma, 1)

\* EthicalPromptTemplates.identify_dilemma_context
identify_dilemma_context(dilemma) ==
    LET contexts == ContextsFrom(dilemma, 1)
    IN  IF contexts # <<>> THEN contexts ELSE <<"general">>

\* the keys of VALUE_MAPPINGS[context] in the order of the dict
VALUE_MAPPINGS ==
    [context \in {"economic", "social", "environmental"} |->
        CASE context = "economic" -> <<"equity", "efficiency", "stability">>
          [] context = "social" -> <<"equality", "liberty", "welfare">>
          [] context = "environmental" ->
                <<"sustainability", "responsibility", "adaptation">>]

\* VALUE_MAPPINGS.get(context, VALUE_MAPPINGS['social'])
get_relevant_values(context) ==
    IF context \in DOMAIN VALUE_MAPPINGS THEN VALUE_MAPPINGS[context]
    ELSE VALUE_MAPPINGS["social"]

\* the sentence added for the primary context
ContextSentence(primary_context) ==
    CASE primary_context = "economic" ->
            <<"\nConsider economic impacts on GDP, employment, and market stability.">>
      [] primary_context = "environmental" ->
            <<"\nEvaluate long-term environmental sustainability and climate impact.">>
      [] primary_context = "social" ->
            <<"\nAnalyze effects on social equity and community well-being.">>
      [] OTHER -> <<>>

\* str.replace of a placeholder and str.format of the template's fields
RECURSIVE Fill(_, _)
Fill(template, fields) ==
    IF template = <<>> THEN <<>>
    ELSE (IF Head(template) \in DOMAIN fields THEN fields[Head(template)]
          ELSE <<Head(template)>>) \o Fill(Tail(template), fields)

\* EthicalPromptTemplates.generate_contextual_prompt
generate_contextual_prompt(template, dilemma, issue_a, issue_b) ==
    LET contexts == identify_dilemma_context(dilemma)
        primary_context == contexts[1]
        values == get_relevant_values(primary_context)
        value_1 == values[1]
        value_2 == IF Len(values) > 1 THEN values[2] ELSE "efficiency"
        enhanced_template ==
            Fill(template, [f \in {"{value_1}", "{value_2}"} |->
                               IF f = "{value_1}" THEN <<value_1>> ELSE <<value_2>>])
            \o ContextSentence(primary_context)
    IN  Fill(enhanced_template,
             [f \in {"{issue_a}", "{issue_b}"} |->
                 IF f = "{issue_a}" THEN issue_a ELSE issue_b])

\* templates with the placeholders generate_contextual_prompt fills
ContextTemplates ==
    {<<"Weigh ", "{issue_a}", " against ", "{issue_b}", " by ", "{value_1}", " and ",
       "{value_2}", ".">>,
     <<"{value_2}", " or ", "{value_1}", "?">>}

ContextFragments == {
    <<"c", "a", "r", "b", "o", "n", " ", "t", "a", "x", " ">>,
    <<"C", "l", "i", "m", "a", "t", "e", " ">>,
    <<"h", "e", "a", "l", "t", "h", "c", "a", "r", "e", " ">>,
    <<"p", "u", "b", "l", "i", "c", " ", "s", "a", "f", "e", "t", "y", " ">>,
    <<"D", "i", "g", "i", "t", "a", "l", " ">>,
    <<"a", " ", "p", "l", "a", "n", " ">>,
    <<"c", "o", "s", "t", "s", " ">>
  }

RECURSIVE TextsOfContextFragments(_)
TextsOfContextFragments(n) ==
    IF n = 0 THEN {<<>>}
    ELSE LET shorter == TextsOfContextFragments(n - 1)
         IN  shorter \cup {t \o f : t \in shorter, f \in ContextFragments}

ContextDilemmas == TextsOfContextFragments(MaxFragments)

VARIABLES
    ctxDilemma,   \* the dilemma text
    ctxOp,        \* the method applied, "none" before
    ctxResult     \* what it returned

contextVars == <<ctxDilemma, ctxOp, ctxResult>>

ContextIdle ==
    /\ ctxDilemma = <<>>
    /\ ctxOp = "none"
    /\ ctxResult = NoneValue

ContextInit ==
    /\ ctxDilemma \in ContextDilemmas
    /\ ctxOp = "none"
    /\ ctxResult = NoneValue

IdentifyDilemmaContext ==
    /\ ctxOp = "none"
    /\ ctxOp' = "identify_dilemma_context"
    /\ ctxResult' = identify_dilemma_context(ctxDilemma)
    /\ UNCHANGED ctxDilemma

GenerateContextualPrompt ==
    /\ ctxOp = "none"
    /\ ctxOp' = "generate_contextual_prompt"
    /\ \E template \in ContextTemplates :
          ctxResult' = generate_contextual_prompt(template, ctxDilemma, <<"X">>, <<"Z">>)
    /\ UNCHANGED ctxDilemma

vars == <<validatorVars, chainVars, cliVars, scorerVars, promptVars, riskVars,
          sessionVars, writerVars, formatVars, factoryVars, benchVars,
          stakeholderVars, explainerVars, contextVars>>

\* the validator is not part of a chain run, and no chain runs beside the validator
ValidatorIdle ==
    /\ min_dilemma_length = MIN_DILEMMA_LENGTH
    /\ valOp = "none"
    /\ valInput = NoneValue
    /\ valFile = NoFile
    /\ valResult = NoResult

\* what a run of the commands leaves alone
pureVars == <<validatorVars, scorerVars, promptVars, riskVars, sessionVars,
              writerVars, formatVars, factoryVars, benchVars, stakeholderVars,
              explainerVars, contextVars>>

Init == ValidatorIdle /\ ChainInit /\ CliInit /\ ScorerIdle /\ PromptIdle /\
        RiskIdle /\ SessionInit /\ WritersIdle /\ FormatIdle /\ FactoryInit /\
        BenchIdle /\ StakeholderIdle /\ ExplainerIdle /\ ContextIdle

Next ==
    \/ (ApiAnalyze /\ UNCHANGED pureVars)
    \/ (CliAnalyze /\ UNCHANGED pureVars)
    \/ (CliAnalyzeOutput /\ UNCHANGED pureVars)
    \/ (CliError /\ UNCHANGED pureVars)
    \/ (CliBatch /\ UNCHANGED pureVars)
    \/ (BatchModel /\ UNCHANGED pureVars)
    \/ (BatchSkipBlank /\ UNCHANGED pureVars)
    \/ (BatchAnalyze /\ UNCHANGED pureVars)
    \/ (BatchOutput /\ UNCHANGED pureVars)
    \/ (BatchModelDone /\ UNCHANGED pureVars)
    \/ (StageCall /\ UNCHANGED <<pureVars, cliVars>>)
    \/ (CoreReturn /\ UNCHANGED <<pureVars, cliVars>>)
    \/ (CoreRaise /\ UNCHANGED <<pureVars, cliVars>>)
    \/ (OptionalReturn /\ UNCHANGED <<pureVars, cliVars>>)
    \/ (OptionalRaise /\ UNCHANGED <<pureVars, cliVars>>)
    \/ (ReturnAnalysis /\ UNCHANGED <<pureVars, cliVars>>)

Spec == Init /\ [][Next]_vars

\* the validator applied to inputs of its own
ValidatorSpecInit == ValidatorInit /\ ChainInit /\ CliInit /\ ScorerIdle /\
        PromptIdle /\ RiskIdle /\ SessionInit /\ WritersIdle /\ FormatIdle /\
        FactoryInit /\ BenchIdle /\ StakeholderIdle /\ ExplainerIdle /\ ContextIdle

ValidatorNext ==
    \/ (ValidateDilemmaText
          /\ UNCHANGED <<chainVars, cliVars, scorerVars, promptVars, riskVars,
                       sessionVars, writerVars, formatVars, factoryVars, benchVars,
                       stakeholderVars, explainerVars, contextVars>>)
    \/ (ValidateDilemmasFile
          /\ UNCHANGED <<chainVars, cliVars, scorerVars, promptVars, riskVars,
                       sessionVars, writerVars, formatVars, factoryVars, benchVars,
                       stakeholderVars, explainerVars, contextVars>>)
    \/ (ValidateUnreadableFile
          /\ UNCHANGED <<chainVars, cliVars, scorerVars, promptVars, riskVars,
                       sessionVars, writerVars, formatVars, factoryVars, benchVars,
                       stakeholderVars, explainerVars, contextVars>>)

SpecValidator == ValidatorSpecInit /\ [][ValidatorNext]_vars

\* the prompt functions applied to arguments of their own
PromptSpecInit == ValidatorIdle /\ ChainInit /\ CliInit /\ ScorerIdle /\ PromptInit
        /\ RiskIdle /\ SessionInit /\ WritersIdle /\ FormatIdle /\ FactoryInit /\
        BenchIdle /\ StakeholderIdle /\ ExplainerIdle /\ ContextIdle

PromptNext ==
    \/ (GetPrincipleIdentificationPrompt
          /\ UNCHANGED <<validatorVars, chainVars, cliVars, scorerVars, riskVars,
                       sessionVars, writerVars, formatVars, factoryVars, benchVars,
                       stakeholderVars, explainerVars, contextVars>>)
    \/ (GetReasoningPrompt
          /\ UNCHANGED <<validatorVars, chainVars, cliVars, scorerVars, riskVars,
                       sessionVars, writerVars, formatVars, factoryVars, benchVars,
                       stakeholderVars, explainerVars, contextVars>>)
    \/ (GetRecommendationPrompt
          /\ UNCHANGED <<validatorVars, chainVars, cliVars, scorerVars, riskVars,
                       sessionVars, writerVars, formatVars, factoryVars, benchVars,
                       stakeholderVars, explainerVars, contextVars>>)
    \/ (GetConfidencePrompt
          /\ UNCHANGED <<validatorVars, chainVars, cliVars, scorerVars, riskVars,
                       sessionVars, writerVars, formatVars, factoryVars, benchVars,
                       stakeholderVars, explainerVars, contextVars>>)

SpecPrompt == PromptSpecInit /\ [][PromptNext]_vars

\* the scorers applied to inputs of their own
ScorerSpecInit == ValidatorIdle /\ ChainInit /\ CliInit /\ ScorerInit /\ PromptIdle
        /\ RiskIdle /\ SessionInit /\ WritersIdle /\ FormatIdle /\ FactoryInit /\
        BenchIdle /\ StakeholderIdle /\ ExplainerIdle /\ ContextIdle

ScorerNext ==
    \/ (CalculateConstitutionalCoverage
          /\ UNCHANGED <<validatorVars, chainVars, cliVars, promptVars, riskVars,
                       sessionVars, writerVars, formatVars, factoryVars, benchVars,
                       stakeholderVars, explainerVars, contextVars>>)
    \/ (CalculateRecommendationClarity
          /\ UNCHANGED <<validatorVars, chainVars, cliVars, promptVars, riskVars,
                       sessionVars, writerVars, formatVars, factoryVars, benchVars,
                       stakeholderVars, explainerVars, contextVars>>)
    \/ (CalculateEthicalConsistency
          /\ UNCHANGED <<validatorVars, chainVars, cliVars, promptVars, riskVars,
                       sessionVars, writerVars, formatVars, factoryVars, benchVars,
                       stakeholderVars, explainerVars, contextVars>>)
    \/ (CalculateCostEfficiency
          /\ UNCHANGED <<validatorVars, chainVars, cliVars, promptVars, riskVars,
                       sessionVars, writerVars, formatVars, factoryVars, benchVars,
                       stakeholderVars, explainerVars, contextVars>>)
    \/ (CalculateCategoryScore
          /\ UNCHANGED <<validatorVars, chainVars, cliVars, promptVars, riskVars,
                       sessionVars, writerVars, formatVars, factoryVars, benchVars,
                       stakeholderVars, explainerVars, contextVars>>)
    \/ (CalculateResourceEfficiency
          /\ UNCHANGED <<validatorVars, chainVars, cliVars, promptVars, riskVars,
                       sessionVars, writerVars, formatVars, factoryVars, benchVars,
                       stakeholderVars, explainerVars, contextVars>>)
    \/ (CalculateResilienceScore
          /\ UNCHANGED <<validatorVars, chainVars, cliVars, promptVars, riskVars,
                       sessionVars, writerVars, formatVars, factoryVars, benchVars,
                       stakeholderVars, explainerVars, contextVars>>)
    \/ (CalculateAdaptationCapacity
          /\ UNCHANGED <<validatorVars, chainVars, cliVars, promptVars, riskVars,
                       sessionVars, writerVars, formatVars, factoryVars, benchVars,
                       stakeholderVars, explainerVars, contextVars>>)

SpecScorers == ScorerSpecInit /\ [][ScorerNext]_vars

\* the risk assessment applied to decisions of its own
RiskSpecInit == ValidatorIdle /\ ChainInit /\ CliInit /\ ScorerIdle /\ PromptIdle /\
        RiskInit /\ SessionInit /\ WritersIdle /\ FormatIdle /\ FactoryInit /\
        BenchIdle /\ StakeholderIdle /\ ExplainerIdle /\ ContextIdle

RiskNext ==
    \/ (CalculateCategoryRisk
          /\ UNCHANGED <<validatorVars, chainVars, cliVars, scorerVars, promptVars,
                       sessionVars, writerVars, formatVars, factoryVars, benchVars,
                       stakeholderVars, explainerVars, contextVars>>)
    \/ (AssessRisks
          /\ UNCHANGED <<validatorVars, chainVars, cliVars, scorerVars, promptVars,
                       sessionVars, writerVars, formatVars, factoryVars, benchVars,
                       stakeholderVars, explainerVars, contextVars>>)

SpecRisk == RiskSpecInit /\ [][RiskNext]_vars

\* batch commands in csv mode, run one after the other
BatchCsvInit == ValidatorIdle /\ ChainInit /\ CliInit /\ ScorerIdle /\ PromptIdle /\
        RiskIdle /\ SessionInit /\ WritersIdle /\ FormatIdle /\ FactoryInit /\
        BenchIdle /\ StakeholderIdle /\ ExplainerIdle /\ ContextIdle

BatchCsvNext ==
    \/ (CliBatchCsv
          /\ UNCHANGED <<validatorVars, scorerVars, promptVars, riskVars,
                       sessionVars, writerVars, formatVars, factoryVars, benchVars,
                       stakeholderVars, explainerVars, contextVars>>)
    \/ (BatchModel
          /\ UNCHANGED <<validatorVars, scorerVars, promptVars, riskVars,
                       sessionVars, writerVars, formatVars, factoryVars, benchVars,
                       stakeholderVars, explainerVars, contextVars>>)
    \/ (BatchSkipBlank
          /\ UNCHANGED <<validatorVars, scorerVars, promptVars, riskVars,
                       sessionVars, writerVars, formatVars, factoryVars, benchVars,
                       stakeholderVars, explainerVars, contextVars>>)
    \/ (BatchAnalyze
          /\ UNCHANGED <<validatorVars, scorerVars, promptVars, riskVars,
                       sessionVars, writerVars, formatVars, factoryVars, benchVars,
                       stakeholderVars, explainerVars, contextVars>>)
    \/ (BatchOutput
          /\ UNCHANGED <<validatorVars, scorerVars, promptVars, riskVars,
                       sessionVars, writerVars, formatVars, factoryVars, benchVars,
                       stakeholderVars, explainerVars, contextVars>>)
    \/ (BatchModelDone
          /\ UNCHANGED <<validatorVars, scorerVars, promptVars, riskVars,
                       sessionVars, writerVars, formatVars, factoryVars, benchVars,
                       stakeholderVars, explainerVars, contextVars>>)
    \/ (CliError
          /\ UNCHANGED <<validatorVars, scorerVars, promptVars, riskVars,
                       sessionVars, writerVars, formatVars, factoryVars, benchVars,
                       stakeholderVars, explainerVars, contextVars>>)
    \/ (CliExit
          /\ UNCHANGED <<validatorVars, scorerVars, promptVars, riskVars,
                       writerVars, formatVars, factoryVars, benchVars,
                       stakeholderVars, explainerVars, contextVars>>)
    \/ (StageCall
          /\ UNCHANGED <<validatorVars, cliVars, scorerVars, promptVars, riskVars,
                       sessionVars, writerVars, formatVars, factoryVars, benchVars,
                       stakeholderVars, explainerVars, contextVars>>)
    \/ (CoreReturn
          /\ UNCHANGED <<validatorVars, cliVars, scorerVars, promptVars, riskVars,
                       sessionVars, writerVars, formatVars, factoryVars, benchVars,
                       stakeholderVars, explainerVars, contextVars>>)
    \/ (CoreRaise
          /\ UNCHANGED <<validatorVars, cliVars, scorerVars, promptVars, riskVars,
                       sessionVars, writerVars, formatVars, factoryVars, benchVars,
                       stakeholderVars, explainerVars, contextVars>>)
    \/ (OptionalReturn
          /\ UNCHANGED <<validatorVars, cliVars, scorerVars, promptVars, riskVars,
                       sessionVars, writerVars, formatVars, factoryVars, benchVars,
                       stakeholderVars, explainerVars, contextVars>>)
    \/ (OptionalRaise
          /\ UNCHANGED <<validatorVars, cliVars, scorerVars, promptVars, riskVars,
                       sessionVars, writerVars, formatVars, factoryVars, benchVars,
                       stakeholderVars, explainerVars, contextVars>>)
    \/ (ReturnAnalysis
          /\ UNCHANGED <<validatorVars, cliVars, scorerVars, promptVars, riskVars,
                       sessionVars, writerVars, formatVars, factoryVars, benchVars,
                       stakeholderVars, explainerVars, contextVars>>)

SpecBatchCsv == BatchCsvInit /\ [][BatchCsvNext]_vars

\* batch processes writing dilemmas.csv side by side
CsvWritersInit == ValidatorIdle /\ ChainInit /\ CliInit /\ ScorerIdle /\ PromptIdle
        /\ RiskIdle /\ SessionInit /\ WritersInit /\ FormatIdle /\ FactoryInit /\
        BenchIdle /\ StakeholderIdle /\ ExplainerIdle /\ ContextIdle

CsvWritersNext ==
    \/ ((\E w \in Range(Workers) : WorkerExists(w))
          /\ UNCHANGED <<validatorVars, chainVars, cliVars, scorerVars, promptVars,
                       riskVars, sessionVars, formatVars, factoryVars, benchVars,
                       stakeholderVars, explainerVars, contextVars>>)
    \/ ((\E w \in Range(Workers) : WorkerOpenHeader(w))
          /\ UNCHANGED <<validatorVars, chainVars, cliVars, scorerVars, promptVars,
                       riskVars, sessionVars, formatVars, factoryVars, benchVars,
                       stakeholderVars, explainerVars, contextVars>>)
    \/ ((\E w \in Range(Workers) : WorkerWriteHeader(w))
          /\ UNCHANGED <<validatorVars, chainVars, cliVars, scorerVars, promptVars,
                       riskVars, sessionVars, formatVars, factoryVars, benchVars,
                       stakeholderVars, explainerVars, contextVars>>)
    \/ ((\E w \in Range(Workers) : WorkerAppendRow(w))
          /\ UNCHANGED <<validatorVars, chainVars, cliVars, scorerVars, promptVars,
                       riskVars, sessionVars, formatVars, factoryVars, benchVars,
                       stakeholderVars, explainerVars, contextVars>>)

SpecCsvWriters == CsvWritersInit /\ [][CsvWritersNext]_vars

\* format_analysis on every EthicalAnalysis of the bounded set
FormatSpecInit == ValidatorIdle /\ ChainInit /\ CliInit /\ ScorerIdle /\ PromptIdle
        /\ RiskIdle /\ SessionInit /\ WritersIdle /\ FormatInit /\ FactoryInit /\
        BenchIdle /\ StakeholderIdle /\ ExplainerIdle /\ ContextIdle

FormatSpecNext ==
    \/ (FormatAnalysis
          /\ UNCHANGED <<validatorVars, chainVars, cliVars, scorerVars, promptVars,
                       riskVars, sessionVars, writerVars, factoryVars, benchVars,
                       stakeholderVars, explainerVars, contextVars>>)

SpecFormat == FormatSpecInit /\ [][FormatSpecNext]_vars

\* the calls of ModelFactory in any order
FactorySpecInit == ValidatorIdle /\ ChainInit /\ CliInit /\ ScorerIdle /\ PromptIdle
        /\ RiskIdle /\ SessionInit /\ WritersIdle /\ FormatIdle /\ FactoryInit /\
        BenchIdle /\ StakeholderIdle /\ ExplainerIdle /\ ContextIdle

FactorySpecNext ==
    \/ (RegisterModel
          /\ UNCHANGED <<validatorVars, chainVars, cliVars, scorerVars, promptVars,
                       riskVars, sessionVars, writerVars, formatVars, benchVars,
                       stakeholderVars, explainerVars, contextVars>>)
    \/ (CreateModel
          /\ UNCHANGED <<validatorVars, chainVars, cliVars, scorerVars, promptVars,
                       riskVars, sessionVars, writerVars, formatVars, benchVars,
                       stakeholderVars, explainerVars, contextVars>>)
    \/ (GetAvailableModels
          /\ UNCHANGED <<validatorVars, chainVars, cliVars, scorerVars, promptVars,
                       riskVars, sessionVars, writerVars, formatVars, benchVars,
                       stakeholderVars, explainerVars, contextVars>>)
    \/ (ChangeAvailable
          /\ UNCHANGED <<validatorVars, chainVars, cliVars, scorerVars, promptVars,
                       riskVars, sessionVars, writerVars, formatVars, benchVars,
                       stakeholderVars, explainerVars, contextVars>>)

SpecFactory == FactorySpecInit /\ [][FactorySpecNext]_vars

\* run_benchmark over every list of models and dilemmas of the bounded sets
BenchSpecInit == ValidatorIdle /\ ChainInit /\ CliInit /\ ScorerIdle /\ PromptIdle
        /\ RiskIdle /\ SessionInit /\ WritersIdle /\ FormatIdle /\ FactoryInit /\
        BenchInit /\ StakeholderIdle /\ ExplainerIdle /\ ContextIdle

BenchSpecNext ==
    \/ ((\E reply \in BenchmarkReplies : BenchmarkPair(reply))
          /\ UNCHANGED <<validatorVars, chainVars, cliVars, scorerVars, promptVars,
                       riskVars, sessionVars, writerVars, formatVars, factoryVars,
                       stakeholderVars, explainerVars, contextVars>>)
    \/ (ReturnTable
          /\ UNCHANGED <<validatorVars, chainVars, cliVars, scorerVars, promptVars,
                       riskVars, sessionVars, writerVars, formatVars, factoryVars,
                       stakeholderVars, explainerVars, contextVars>>)
    \/ ((\E reply \in BenchmarkReplies : BenchmarkModelDirect(reply))
          /\ UNCHANGED <<validatorVars, chainVars, cliVars, scorerVars, promptVars,
                       riskVars, sessionVars, writerVars, formatVars, factoryVars,
                       stakeholderVars, explainerVars, contextVars>>)

SpecBenchmark == BenchSpecInit /\ [][BenchSpecNext]_vars

\* the methods of StakeholderAnalyzer on every text of the bounded set
StakeholderSpecInit == ValidatorIdle /\ ChainInit /\ CliInit /\ ScorerIdle /\
        PromptIdle /\ RiskIdle /\ SessionInit /\ WritersIdle /\ FormatIdle /\
        FactoryInit /\ BenchIdle /\ StakeholderInit /\ ExplainerIdle /\ ContextIdle

StakeholderSpecNext ==
    \/ (DetermineImpactType
          /\ UNCHANGED <<validatorVars, chainVars, cliVars, scorerVars, promptVars,
                       riskVars, sessionVars, writerVars, formatVars, factoryVars,
                       benchVars, explainerVars, contextVars>>)
    \/ (DetermineImpactSeverity
          /\ UNCHANGED <<validatorVars, chainVars, cliVars, scorerVars, promptVars,
                       riskVars, sessionVars, writerVars, formatVars, factoryVars,
                       benchVars, explainerVars, contextVars>>)
    \/ (IdentifyStakeholders
          /\ UNCHANGED <<validatorVars, chainVars, cliVars, scorerVars, promptVars,
                       riskVars, sessionVars, writerVars, formatVars, factoryVars,
                       benchVars, explainerVars, contextVars>>)

SpecStakeholder == StakeholderSpecInit /\ [][StakeholderSpecNext]_vars

\* the methods of ExplainableAI on every object of the bounded set
ExplainerSpecInit == ValidatorIdle /\ ChainInit /\ CliInit /\ ScorerIdle /\
        PromptIdle /\ RiskIdle /\ SessionInit /\ WritersIdle /\ FormatIdle /\
        FactoryInit /\ BenchIdle /\ StakeholderIdle /\ ExplainerInit /\ ContextIdle

ExplainerSpecNext ==
    \/ (AnalyzeDecisionPath
          /\ UNCHANGED <<validatorVars, chainVars, cliVars, scorerVars, promptVars,
                       riskVars, sessionVars, writerVars, formatVars, factoryVars,
                       benchVars, stakeholderVars, contextVars>>)
    \/ (BreakDownConfidence
          /\ UNCHANGED <<validatorVars, chainVars, cliVars, scorerVars, promptVars,
                       riskVars, sessionVars, writerVars, formatVars, factoryVars,
                       benchVars, stakeholderVars, contextVars>>)
    \/ (GenerateAiExplanation
          /\ UNCHANGED <<validatorVars, chainVars, cliVars, scorerVars, promptVars,
                       riskVars, sessionVars, writerVars, formatVars, factoryVars,
                       benchVars, stakeholderVars, contextVars>>)

SpecExplainer == ExplainerSpecInit /\ [][ExplainerSpecNext]_vars

\* the context methods of EthicalPromptTemplates on every dilemma of the bounded set
ContextSpecInit == ValidatorIdle /\ ChainInit /\ CliInit /\ ScorerIdle /\ PromptIdle
        /\ RiskIdle /\ SessionInit /\ WritersIdle /\ FormatIdle /\ FactoryInit /\
        BenchIdle /\ StakeholderIdle /\ ExplainerIdle /\ ContextInit

ContextSpecNext ==
    \/ (IdentifyDilemmaContext
          /\ UNCHANGED <<validatorVars, chainVars, cliVars, scorerVars, promptVars,
                       riskVars, sessionVars, writerVars, formatVars, factoryVars,
                       benchVars, stakeholderVars, explainerVars>>)
    \/ (GenerateContextualPrompt
          /\ UNCHANGED <<validatorVars, chainVars, cliVars, scorerVars, promptVars,
                       riskVars, sessionVars, writerVars, formatVars, factoryVars,
                       benchVars, stakeholderVars, explainerVars>>)

SpecContext == ContextSpecInit /\ [][ContextSpecNext]_vars

(***************************************************************************)
(* Claims about the chain and the commands (checked under Spec).           *)
(***************************************************************************)
StageIndex(s) == CHOOSE i \in DOMAIN StageOrder : StageOrder[i] = s
CallEvents == SelectSeq(trace, LAMBDA e : e.kind = "call")
Called(s) == \E i \in DOMAIN trace : trace[i].stage = s /\ trace[i].kind = "call"
Raised(s) == \E i \in DOMAIN trace : trace[i].stage = s /\ trace[i].kind = "raise"
\* the text the model client returned to stage s
ReturnedText(s) ==
    LET i == CHOOSE k \in DOMAIN trace : trace[k].stage = s /\ trace[k].kind = "return"
    IN  trace[i].text
TimesCalled(s) == Cardinality({i \in DOMAIN trace :
                                  trace[i].stage = s /\ trace[i].kind = "call"})

\* C1: if a core stage of analyze_dilemma fails, the failure propagates to the
\* caller: no EthicalAnalysis is returned, no later core or optional stage is
\* invoked, and the failed stage is not retried.
C1_CoreFailurePropagates ==
    \A i \in DOMAIN trace :
        (trace[i].kind = "raise" /\ IsCore(trace[i].stage)) =>
            /\ pc = "raised"
            /\ IsNone(result)
            /\ i = Len(trace)
            /\ TimesCalled(trace[i].stage) = 1
            /\ cmd \in {"analyze", "batch"} => cliPc \in {"analyzing", "failed"}

\* the recommendation stage failed after two stages that succeeded
C1_Witness ==
    /\ pc = "raised"
    /\ Len(trace) = 6
    /\ trace[6] = Event("recommendations", "raise", <<>>)
    /\ cliPc = "failed"

\* the result field an optional stage fills
OptionalField(a, s) ==
    CASE s = "benchmark" -> a.benchmark_results
      [] s = "alignment" -> a.ethical_alignment
      [] s = "stakeholder" -> a.stakeholder_impacts
      [] s = "longterm" -> a.long_term_impact
      [] s = "explanation" -> a.ai_explanation

\* whether analyze_dilemma attempts optional stage s at all
Attempted(s) ==
    CASE s = "benchmark" -> BenchmarkRequested
      [] s = "explanation" -> chainer.explainer
      [] OTHER -> TRUE

\* C2: once the four core stages have succeeded, a failure of an optional
\* stage is caught: the call still returns an EthicalAnalysis whose core
\* fields are the values the core stages produced, the failed stage's field is
\* None, and every other optional stage is still attempted.
C2_OptionalFailureCaught ==
    /\ \A s \in Range(OptionalStages) : Raised(s) => pc # "raised"
    /\ pc = "returned" =>
        /\ ~IsNone(result)
        /\ result.dilemma = call.dilemma
        /\ result.ethical_principles = NonBlankLines(ReturnedText("principles"))
        /\ result.analysis = ReturnedText("analysis")
        /\ result.recommendations = NonBlankLines(ReturnedText("recommendations"))
        /\ result.confidence_score = ParseConfidence(ReturnedText("confidence"))
        /\ \A s \in Range(OptionalStages) :
              /\ Raised(s) => IsNone(OptionalField(result, s))
              /\ Attempted(s) => Called(s)

\* the stakeholder stage failed, the long-term stage after it ran and the
\* analysis was returned
C2_Witness ==
    /\ pc = "returned"
    /\ Raised("stakeholder")
    /\ IsNone(result.stakeholder_impacts)
    /\ ~IsNone(result.long_term_impact)
    /\ ~IsNone(result.ai_explanation)
    /\ result.ethical_principles = <<<<"a">>, <<"b">>>>

\* C3: within one run the stages execute sequentially in the fixed order
\* principles, analysis, recommendations, confidence, benchmark, ethical
\* alignment, stakeholder impacts, long-term impacts, explanation: a stage
\* starts only after the stage before it has come back, and every stage is
\* invoked at most once.
C3_SequentialOnce ==
    /\ \A i, j \in DOMAIN CallEvents :
          i < j => StageIndex(CallEvents[i].stage) < StageIndex(CallEvents[j].stage)
    /\ \A i \in DOMAIN trace :
          trace[i].kind = "call" =>
              \/ (i = Len(trace) /\ inflight /\ pc = trace[i].stage)
              \/ (i < Len(trace) /\ trace[i + 1].stage = trace[i].stage
                     /\ trace[i + 1].kind \in {"return", "raise"})
    /\ \A i \in DOMAIN CallEvents :
          \A k \in 1..(StageIndex(CallEvents[i].stage) - 1) :
              Attempted(StageOrder[k]) =>
                  \E j \in 1..(i - 1) : CallEvents[j].stage = StageOrder[k]

\* a run that called all nine stages
C3_Witness ==
    /\ pc = "returned"
    /\ Len(CallEvents) = 9
    /\ [i \in 1..9 |-> CallEvents[i].stage] = StageOrder

\* the stages whose prompt is built from the stage before
LaterCoreStages == {"analysis", "recommendations", "confidence"}

C6_NoModelCallForInvalidDilemma ==
    (cmd \in {"analyze", "batch"} /\ trace # <<>>)
        => validate_dilemma_text(MIN_DILEMMA_LENGTH, Str(call.dilemma)).ok

(***************************************************************************)
(* Claims about the prompt functions (checked under SpecPrompt).           *)
(***************************************************************************)
ContainsAll(text, items) == \A i \in DOMAIN items : Contains(text, items[i])

IsQuestion(v) == IsStr(v) /\ Contains(v.val, <<"?">>)

\* C7 as stated: validate_dilemma_text accepts every non-empty dilemma string
\* that contains "?".
C7_AcceptsEveryQuestion ==
    (valOp = "text" /\ IsQuestion(valInput) /\ valInput.val # <<>>)
        => valResult.ok

\* C7 amended: validate_dilemma_text accepts every dilemma string of at least
\* the minimum length that contains "?", with the message "Valid dilemma text".
C7_AcceptsLongQuestions ==
    (valOp = "text" /\ IsQuestion(valInput)
        /\ Len(valInput.val) >= min_dilemma_length)
        => (valResult.ok /\ valResult.msg = MsgValid)

\* a question of exactly the minimum length was accepted
C7_Witness ==
    /\ valOp = "text"
    /\ IsQuestion(valInput)
    /\ Len(valInput.val) = min_dilemma_length
    /\ valResult.ok

\* C8: every string shorter than the minimum length or without "?" is
\* rejected, with one reason chosen in a fixed precedence: an empty or
\* non-string value is told 'must be a non-empty string', a non-empty string
\* below the minimum length 'too short' (with or without "?"), a long-enough
\* string without "?" 'must be a question'.
C8_RejectionReasons ==
    valOp = "text" =>
        /\ (~IsStr(valInput) \/ valInput.val = <<>>)
              => (~valResult.ok /\ valResult.msg = MsgNonEmpty)
        /\ (IsStr(valInput) /\ valInput.val # <<>>
              /\ Len(valInput.val) < min_dilemma_length)
              => (~valResult.ok /\ valResult.msg = MsgTooShort(min_dilemma_length))
        /\ (IsStr(valInput) /\ Len(valInput.val) >= min_dilemma_length
              /\ ~Contains(valInput.val, <<"?">>))
              => (~valResult.ok /\ valResult.msg = MsgQuestion)

\* a short string without "?" was told it is too short
C8_Witness ==
    /\ valOp = "text"
    /\ IsStr(valInput)
    /\ valInput.val # <<>>
    /\ Len(valInput.val) < min_dilemma_length
    /\ ~Contains(valInput.val, <<"?">>)
    /\ valResult.msg = MsgTooShort(min_dilemma_length)

\* the positions (from 1) of the file's lines that are not blank and that
\* validate_dilemma_text rejects once stripped
FailingLines ==
    {i \in 1..Len(valFile.lines) :
        /\ Strip(valFile.lines[i]) # <<>>
        /\ ~validate_dilemma_text(min_dilemma_length,
                                  Str(Strip(valFile.lines[i]))).ok}

\* C9: validate_dilemmas_file returns (True, []) iff every non-blank line
\* passes validate_dilemma_text; otherwise False with exactly one error per
\* failing line, in file order, each carrying the line's 1-based position in
\* the file (blank lines are skipped but counted); a file that cannot be read
\* gives (False, [one error message]).
C9_FileValidation ==
    /\ valOp = "file" =>
        /\ valResult.ok <=> (FailingLines = {})
        /\ valResult.ok <=> (valResult.errors = <<>>)
        /\ Len(valResult.errors) = Cardinality(FailingLines)
        /\ \A k \in 1..Len(valResult.errors) :
              LET e == valResult.errors[k]
              IN  /\ e.kind = "line"
                  /\ e.line \in FailingLines
                  /\ e.msg = validate_dilemma_text(min_dilemma_length,
                                 Str(Strip(valFile.lines[e.line]))).msg
        /\ \A k \in 1..(Len(valResult.errors) - 1) :
              valResult.errors[k].line < valResult.errors[k + 1].line
    /\ valOp = "nofile" =>
        /\ ~valResult.ok
        /\ valResult.errors = <<ReadError>>

\* a file whose first line is blank and whose second line fails: the error
\* carries position 2
C9_Witness ==
    /\ valOp = "file"
    /\ Len(valFile.lines) >= 2
    /\ Strip(valFile.lines[1]) = <<>>
    /\ Len(valResult.errors) >= 1
    /\ valResult.errors[1].line = 2

(***************************************************************************)
(* Claims about the scorers (checked under SpecScorers).                   *)
(***************************************************************************)
\* C10 as stated: every scorer returns a score within [0,1] for every input,
\* and 0 for the empty string; for the cost efficiency this holds for every
\* non-negative token count and every non-negative cost per token.
C10_ScoresWithinUnitInterval ==
    scorer # "none" =>
        /\ ~score.raised
        /\ 0 <= score.num
        /\ score.num <= score.den
        /\ (scoreInput.kind = "text" /\ scoreInput.text = <<>>) => score.num = 0

(***************************************************************************)
(* Claims about the risk assessment (checked under SpecRisk).              *)
(***************************************************************************)
RiskRank(level) == CHOOSE i \in DOMAIN RiskLevels : RiskLevels[i] = level

\* the level the thresholds give m matched factors
LevelOfMatches(m, level) ==
    /\ m >= 4 => level = "critical"
    /\ m = 3 => level = "high"
    /\ m = 2 => level = "moderate"
    /\ m <= 1 => level = "low"

\* C11: _calculate_category_risk maps the number m of a category's risk
\* factors matched in the decision to a level by fixed thresholds (m >= 4
\* critical, m = 3 high, m = 2 moderate, m <= 1 low), the level never
\* decreases as m grows, and _assess_risks returns one level for each of the
\* five risk categories.
C11_RiskThresholds ==
    /\ riskOp.name = "_calculate_category_risk" =>
          LET factors == risk_factors[riskOp.category]
              m == FactorsMatched(riskDecision, factors)
          IN  /\ LevelOfMatches(m, riskResult)
              /\ \A other \in RiskDecisions :
                    FactorsMatched(other, factors) >= m =>
                        RiskRank(_calculate_category_risk(other, factors))
                            >= RiskRank(riskResult)
    /\ riskOp.name = "_assess_risks" =>
          /\ DOMAIN riskResult = RiskCategories
          /\ Cardinality(DOMAIN riskResult) = 5
          /\ \A category \in RiskCategories :
                LevelOfMatches(FactorsMatched(riskDecision, risk_factors[category]),
                               riskResult[category])

\* exactly four environmental factors matched: critical
C11_Witness ==
    /\ riskOp = [name |-> "_calculate_category_risk", category |-> "environmental"]
    /\ FactorsMatched(riskDecision, risk_factors["environmental"]) = 4
    /\ riskResult = "critical"

(***************************************************************************)
(* Claims about the csv output of batch (checked under SpecBatchCsv).      *)
(***************************************************************************)
\* the rows of dilemmas.csv after its first line
DataRows(f) == IF f.exists THEN Tail(f.data) ELSE <<>>
NonBlankDilemmas == SelectSeq(dilemmas, LAMBDA d : Strip(d) # <<>>)
TimesIn(rows, row) == Cardinality({i \in DOMAIN rows : rows[i] = row})

AllWorkersDone == \A w \in Range(Workers) : workerPc[w] = "done"

\* C13 as stated: when batch workers run concurrently against the same
\* output directory, the header is written exactly once and the row of every
\* completed analysis is present and intact (none interleaved, lost or
\* truncated).
C13_SingleWriterDiscipline ==
    /\ \A w \in Range(Workers) : \A k \in 1..workerDone[w] :
          workerPc[w] \in {"exists", "append", "done"} =>
              TimesIn(sharedCsv.data, WorkerRow(w, k)) = 1
    /\ AllWorkersDone =>
          /\ sharedCsv.data[1] = CsvHeader
          /\ TimesIn(sharedCsv.data, CsvHeader) = 1
          /\ Len(sharedCsv.data) = 1 + workerRows["gpt-4"] + workerRows["grok-3"]

(***************************************************************************)
(* Claims about a failure inside batch (checked under Spec).               *)
(***************************************************************************)
\* the (model, dilemma) pairs batch has not reached yet
PairsLeft ==
    \/ \E j \in (di + 1)..Len(dilemmas) : Strip(dilemmas[j]) # <<>>
    \/ (mi < Len(model_list) /\ NonBlankDilemmas # <<>>)

\* C14 as stated: in batch mode a model-invocation failure while analysing
\* one (model, dilemma) pair is not retried, is reported by the command and
\* aborts that unit of work only: nothing is written for the failing pair and
\* the other pairs are still processed, so the command does not end while
\* pairs are left.
C14_BatchFailureAbortsOnePair ==
    (cmd = "batch" /\ cliPc = "failed") =>
        /\ \A s \in Range(StageOrder) : TimesCalled(s) <= 1
        /\ ~files[TxtFile(model_list[mi], di)].exists
        /\ ~PairsLeft

(***************************************************************************)
(* Claims about the confidence stage (checked under Spec).  A confidence   *)
(* is a whole number of hundredths.                                        *)
(***************************************************************************)
Returned(s) == \E i \in DOMAIN trace : trace[i].stage = s /\ trace[i].kind = "return"

\* C15: the confidence stage parses the model's text as a number: "0.85"
\* yields 0.85 as confidence_score, "not a number" yields the default 0.5
\* without failing the chain, and the run still returns its EthicalAnalysis.
C15_ConfidenceParsing ==
    Returned("confidence") =>
        LET text == ReturnedText("confidence")
        IN  /\ text = <<"0", ".", "8", "5">> => confidence_score = 85
            /\ text = <<"n", "o", "t", " ", "a", " ", "n", "u", "m", "b", "e", "r">>
                  => confidence_score = 50
            /\ pc # "raised"
            /\ pc = "returned" =>
                  /\ ~IsNone(result)
                  /\ result.confidence_score = confidence_score

\* a run whose confidence text was no number has returned with the default
C15_Witness ==
    /\ pc = "returned"
    /\ ReturnedText("confidence") =
          <<"n", "o", "t", " ", "a", " ", "n", "u", "m", "b", "e", "r">>
    /\ result.confidence_score = 50

OptionalFields ==
    <<"benchmark_results", "ethical_alignment", "stakeholder_impacts",
      "long_term_impact", "ai_explanation">>

SectionLine(field) ==
    CASE field = "benchmark_results" -> "Model Benchmark Results:"
      [] field = "ethical_alignment" -> "Ethical Alignment Analysis:"
      [] field = "stakeholder_impacts" -> "Stakeholder Impact Analysis:"
      [] field = "long_term_impact" -> "{format_impact_analysis}"
      [] field = "ai_explanation" -> "{format_explanation}"

\* the lines the always-present sections start with, in the claimed order
FixedLines ==
    <<"Dilemma: ", "Ethical Principles:", "Analysis:", "Recommendations:",
      "Confidence Score: ">>

\* every fixed section is in the report once, each after the one before it
FixedSectionsInOrder(report) ==
    /\ \A k \in DOMAIN FixedLines : TimesIn(report, FixedLines[k]) = 1
    /\ \A k \in 1..(Len(FixedLines) - 1) :
          IndexFrom(report, FixedLines[k], 1) < IndexFrom(report, FixedLines[k + 1], 1)

ClaimedHeaders ==
    {"Context", "Ethical Framework Analysis", "Trade-off Analysis",
     "Bias and Assumption Check", "Values Alignment", "Solution"}

\* the fixed text a report line can start its section with: the name alone,
\* with a colon, or with a colon and the text after it
HeaderLines(name) ==
    CASE name = "Context" -> {"Context", "Context:", "Context: "}
      [] name = "Ethical Framework Analysis" ->
            {"Ethical Framework Analysis", "Ethical Framework Analysis:",
             "Ethical Framework Analysis: "}
      [] name = "Trade-off Analysis" ->
            {"Trade-off Analysis", "Trade-off Analysis:", "Trade-off Analysis: "}
      [] name = "Bias and Assumption Check" ->
            {"Bias and Assumption Check", "Bias and Assumption Check:",
             "Bias and Assumption Check: "}
      [] name = "Values Alignment" ->
            {"Values Alignment", "Values Alignment:", "Values Alignment: "}
      [] name = "Solution" -> {"Solution", "Solution:", "Solution: "}
      [] name = "Ethical Principles" -> {"Ethical Principles:"}
      [] name = "Analysis" -> {"Analysis:"}
      [] name = "Recommendations" -> {"Recommendations:"}
      [] name = "Confidence Score" -> {"Confidence Score: "}

HasHeader(report, name) == \E i \in DOMAIN report : report[i] \in HeaderLines(name)

\* the headers format_analysis writes for every result
EmittedHeaders ==
    {"Context", "Ethical Principles", "Analysis", "Recommendations",
     "Confidence Score"}

\* the dilemma line holds the dilemma text as it was given
DilemmaVerbatim(report, dilemma) == Contains(report, <<"Dilemma: ">> \o dilemma \o NL)

RegisteredUnder(provider, n) ==
    {i \in 1..n : registrations[i].name = provider}

Max(S) == CHOOSE x \in S : \A y \in S : y <= x

\* the class each registered provider was last registered with
LastRegistered ==
    [p \in {registrations[i].name : i \in DOMAIN registrations} |->
        registrations[Max(RegisteredUnder(p, Len(registrations)))].model_class]

\* C19: after any sequence of register_model calls, create_model(config)
\* raises ModelError if and only if config.provider was never registered, and
\* otherwise returns an instance of the class most recently registered under
\* that provider, holding the given config; get_available_models returns a
\* copy, so changing the returned dict never changes the registry.
C19_FactoryRegistry ==
    /\ created # NoneValue =>
          LET under == RegisteredUnder(created.given.provider, created.after)
          IN  /\ (created.outcome.raised = "ModelError") <=> (under = {})
              /\ under # {} =>
                    /\ created.outcome.raised = ""
                    /\ created.outcome.class = registrations[Max(under)].model_class
                    /\ created.outcome.config = created.given
    /\ _models = LastRegistered

\* a provider was registered twice with different classes, create_model
\* returned an instance of the second, and the dict get_available_models
\* returned has been changed away from the registry
C19_Witness ==
    /\ Len(registrations) = 2
    /\ registrations[1].name = registrations[2].name
    /\ registrations[1].model_class # registrations[2].model_class
    /\ created # NoneValue
    /\ created.after = 2
    /\ created.outcome.raised = ""
    /\ created.outcome.class = registrations[2].model_class
    /\ available.ref = "copy"
    /\ available.items # _models

(***************************************************************************)
(* Claims about run_benchmark (checked under SpecBenchmark).               *)
(***************************************************************************)
\* the k-th (model, dilemma) pair in model-major order
ModelMajor(k) ==
    [mi |-> ((k - 1) \div Len(benchDilemmas)) + 1,
     di |-> ((k - 1) % Len(benchDilemmas)) + 1]

\* the pairs taken so far are the first pairs in model-major order, and the
\* run returns only when every pair was taken
VisitsModelMajor ==
    /\ \A k \in DOMAIN visits :
          visits[k].mi = ModelMajor(k).mi /\ visits[k].di = ModelMajor(k).di
    /\ benchPc = "returned" => Len(visits) = Len(models) * Len(benchDilemmas)

LinesIn(log, line) == Cardinality({i \in DOMAIN log : log[i] = line})

\* the (model, dilemma) of the rows, in their order
RowPairs(rows) == [i \in DOMAIN rows |-> <<rows[i].model, rows[i].dilemma>>]

\* the (model, dilemma) of the visits, in their order
VisitPairs(vs) == [i \in DOMAIN vs |-> <<models[vs[i].mi], benchDilemmas[vs[i].di]>>]

Benchmarked(v) == v.benchmarked

\* every pair that got no row was logged by run_benchmark, every failure of
\* benchmark_model by benchmark_model too, and a caller of benchmark_model
\* gets the failure raised
FailuresLoggedAndRaised ==
    /\ \A name \in BenchModelNames :
          /\ LinesIn(benchLog, ErrorInBenchmark(name)) =
                Cardinality({k \in DOMAIN visits :
                                ~visits[k].row /\ models[visits[k].mi] = name})
          /\ LinesIn(benchLog, ErrorBenchmarkingModel(name)) >=
                Cardinality({k \in DOMAIN visits :
                                ~visits[k].benchmarked /\ models[visits[k].mi] = name})
    /\ \A k \in DOMAIN visits : ~visits[k].benchmarked => ~visits[k].row
    /\ direct # NoneValue => (direct.raised <=> direct.failed)

\* C20 as stated: run_benchmark visits every (model, dilemma) pair in
\* model-major order; a pair whose benchmark_model call fails is logged and
\* skipped without stopping the run, so the returned table has exactly one row
\* per pair whose benchmark_model call succeeded, while benchmark_model itself
\* re-raises its failure to its caller.
C20_RowPerBenchmarkedPair ==
    /\ VisitsModelMajor
    /\ FailuresLoggedAndRaised
    /\ RowPairs(results) = VisitPairs(SelectSeq(visits, Benchmarked))
    /\ benchPc = "returned" => table = Value("DataFrame", results)

(***************************************************************************)
(* Claims about StakeholderAnalyzer (checked under SpecStakeholder).       *)
(***************************************************************************)
\* C21: _determine_impact_type partitions the decision texts by the counts p
\* of positive and n of negative terms found: positive iff p > n, negative
\* iff n > p, mixed iff p = n > 0, neutral iff p = n = 0; one type is
\* returned and it is the same for every stakeholder group.
C21_ImpactTypePartition ==
    shOp = "_determine_impact_type" =>
        LET p == TermsFound(positive_terms, shText)
            n == TermsFound(negative_terms, shText)
        IN  /\ shResult \in {"positive", "negative", "mixed", "neutral"}
            /\ (shResult = "positive") <=> (p > n)
            /\ (shResult = "negative") <=> (n > p)
            /\ (shResult = "mixed") <=> (p = n /\ p > 0)
            /\ (shResult = "neutral") <=> (p = 0 /\ n = 0)
            /\ \A group \in PredefinedGroups :
                  _determine_impact_type(shText, group) = shResult

\* a text with one positive and one negative term came out mixed
C21_Witness ==
    /\ shOp = "_determine_impact_type"
    /\ TermsFound(positive_terms, shText) = 1
    /\ TermsFound(negative_terms, shText) = 1
    /\ shResult = "mixed"

\* the severity classes with a term in the text
MatchedSeverities(text) ==
    {severity \in Range(SeverityOrder) :
        \E i \in DOMAIN severity_terms[severity] :
            Contains(lower(text), severity_terms[severity][i])}

\* C22 as stated: for every predefined stakeholder group, the vulnerable one
\* included, _determine_impact_severity returns the severity the terms of the
\* text indicate: critical for a text with critical terms, low for a text
\* whose only severity terms are low-severity ones.
C22_SeverityOfTerms ==
    (shOp = "_determine_impact_severity" /\ shGroup \in PredefinedGroups) =>
        /\ "critical" \in MatchedSeverities(shText) => shResult = "critical"
        /\ MatchedSeverities(shText) = {"low"} => shResult = "low"

\* C23 as stated: identify_stakeholders returns a group whenever the context
\* mentions one of its key interests or typical concerns, the ones of more
\* than one word included.
C23_GroupOfMentionedTerm ==
    shOp = "identify_stakeholders" =>
        \A key \in Range(GroupKeys) :
            (\E term \in Range(GroupTerms(STAKEHOLDER_GROUPS[key])) :
                Contains(lower(shText), term))
                => key \in Range(shResult)

\* the place of a severity in ImpactSeverity, from 1 for low
SeverityRank(severity) == SeverityIndex(severity) + 1

\* the level a vulnerability gives by the thresholds 0.75, 0.5 and 0.25
VulnerabilityRank(v) == IF v >= 75 THEN 4 ELSE IF v >= 50 THEN 3 ELSE IF v >= 25 THEN 2 ELSE 1

\* one level above the highest class matched, low when none is, capped at
\* critical
TermRank(text) ==
    LET ranks == {SeverityRank(severity) : severity \in MatchedSeverities(text)} \cup {1}
        above == Max(ranks) + 1
    IN  IF above > 4 THEN 4 ELSE above

C24_ListsAndKeysAgree ==
    /\ exOp.name = "_analyze_decision_path" =>
          /\ Len(exResult.steps) = Len(exResult.reasoning)
          /\ Len(exResult.steps) = Len(exResult.alternatives)
          /\ Len(exResult.steps) = Len(exResult.confidence_scores)
    /\ exOp.name = "_break_down_confidence" =>
          /\ DOMAIN exResult.factors = DOMAIN exResult.reasoning
          /\ exResult.overall_confidence >= 0
          /\ exResult.overall_confidence <= 100

\* an object with the long-term impact and the confidence score only: a path
\* of one step, and a breakdown of the two factors
C24_Witness ==
    /\ exAnalysis.type = "object"
    /\ exAnalysis.attrs = {"long_term_impact", "confidence_score"}
    /\ \/ /\ exOp.name = "_analyze_decision_path"
          /\ exResult.steps = <<"Assess long-term impacts">>
          /\ Len(exResult.alternatives) = 1
       \/ /\ exOp.name = "_break_down_confidence"
          /\ DOMAIN exResult.reasoning = {"Overall Analysis", "Long-term Impact"}
          /\ exResult.overall_confidence = exAnalysis.confidence_score

\* the explanation of an object that has none of the inspected attributes,
\* without its timestamp
EmptyExplanation ==
    [feature_importance |-> <<>>,
     decision_path |-> [steps |-> <<>>, reasoning |-> <<>>, alternatives |-> <<>>,
                        confidence_scores |-> <<>>],
     counterfactuals |-> <<>>,
     similar_cases |-> <<[case_id |-> "CASE001", similarity_score |-> 85,
                          outcome |-> "Similar recommendations were made"]>>,
     confidence_breakdown |-> [factors |-> <<>>, reasoning |-> <<>>,
                               overall_confidence |-> 80],
     ethical_reasoning |->
        [principles_applied |-> <<>>, reasoning_steps |-> <<>>, tradeoffs |-> <<>>,
         justification |->
            "The analysis followed a systematic approach to ethical reasoning"]]

WithoutTimestamp(e) == [field \in DOMAIN e \ {"timestamp"} |-> e[field]]

\* C29: the explanation the chainer attaches does not depend on the dilemma
\* or on the analysis: whatever the dilemma, the analysis text and the level,
\* it is, timestamp apart, the one explanation with no feature importance, an
\* empty decision path, no counterfactuals, the placeholder similar case and
\* an overall confidence of 0.8.
C29_ExplanationIsConstant ==
    exOp.name = "_generate_ai_explanation" =>
        WithoutTimestamp(exResult) = EmptyExplanation

\* the explanation of the analysis text "Q" of dilemma "Z" at the later time
C29_Witness ==
    /\ exOp.name = "_generate_ai_explanation"
    /\ exOp.dilemma = <<"Z">>
    /\ exOp.text = <<"Q">>
    /\ exResult.timestamp = 2
    /\ exResult.confidence_breakdown.overall_confidence = 80
    /\ exResult.feature_importance = <<>>

(***************************************************************************)
(* Claims about the dilemma contexts (checked under SpecContext).          *)
(***************************************************************************)
\* the contexts with a keyword in the lower-cased dilemma
ContextsFound(dilemma) ==
    {context \in Range(ContextOrder) :
        \E keyword \in Range(DILEMMA_CONTEXTS[context]) :
            Contains(lower(dilemma), keyword)}

\* the place of a context in the fixed order
ContextPlace(context) == CHOOSE k \in DOMAIN ContextOrder : ContextOrder[k] = context

\* the sentences generate_contextual_prompt can add
ContextSentences ==
    UNION {Range(ContextSentence(context)) : context \in Range(ContextOrder)}

C26_CallersRejectBlank ==
    /\ (cmd \in {"analyze", "batch"} /\ pc # "idle") => Strip(call.dilemma) # <<>>
    /\ cmd = "batch" =>
          /\ \A m \in Range(DefaultModels), i \in 1..MaxBatchLines :
                files[TxtFile(m, i)].exists =>
                    /\ i <= Len(dilemmas)
                    /\ Strip(dilemmas[i]) # <<>>
          /\ \A k \in DOMAIN files[CsvFile].data :
                Strip(files[CsvFile].data[k][2]) # <<>>

\* C28: an EthicalAnalysis returned by analyze_dilemma has benchmark_results
\* other than None only if its chainer has a benchmarker and a non-empty
\* benchmark model list and the call asked for benchmarking, and
\* ai_explanation other than None only if the chainer has an explainer; so
\* format_analysis of that chainer finds the benchmarker and the explainer
\* it calls.
C28_OptionalResultsHaveTheirMaker ==
    pc = "returned" =>
        /\ result.benchmark_results # NoneValue =>
              /\ chainer.benchmarker
              /\ chainer.benchmark_models \notin {NoneValue, EmptyList}
              /\ call.include_benchmark
        /\ result.ai_explanation # NoneValue => chainer.explainer
        /\ Truthy(result.benchmark_results) => chainer.benchmarker
        /\ Truthy(result.ai_explanation) => chainer.explainer

\* an analysis comes back with benchmark results and an explanation
C28_Witness ==
    /\ pc = "returned"
    /\ result.benchmark_results # NoneValue
    /\ result.ai_explanation # NoneValue
    /\ chainer.benchmarker
    /\ chainer.explainer

\* the returned analysis is made of this call's arguments, the chainer's
\* attributes and the model's answers to this call, and of nothing else
ResultIsOfThisCall ==
    pc = "returned" =>
        /\ result.dilemma = call.dilemma
        /\ result.context = OrEmptyList(call.context)
        /\ result.model_used = chainer.model
        /\ result.ethical_principles = NonBlankLines(chainer.client["principles"])
        /\ result.analysis = chainer.client["analysis"]
        /\ result.recommendations = NonBlankLines(chainer.client["recommendations"])
        /\ result.confidence_score = ParseConfidence(chainer.client["confidence"])
        /\ result.benchmark_results \in
              (IF BenchmarkRequested THEN StageResults("benchmark") ELSE {})
                  \cup {NoneValue}
        /\ result.ethical_alignment \in StageResults("alignment") \cup {NoneValue}
        /\ result.stakeholder_impacts \in StageResults("stakeholder") \cup {NoneValue}
        /\ result.long_term_impact \in StageResults("longterm") \cup {NoneValue}
        /\ result.ai_explanation \in
              (IF chainer.explainer THEN StageResults("explanation") ELSE {})
                  \cup {NoneValue}

====
